---- MODULE Spec2Model ----
(***************************************************************************)
(* Model of the VoiceBook client service layer (firebaseService) and of    *)
(* the sharded-notification variant of the same service.  The document     *)
(* database is Firestore: runTransaction is optimistic (documents read in  *)
(* the body are validated at commit, the body is re-run after a conflict), *)
(* updateDoc / setDoc / deleteDoc / writeBatch.commit are single atomic    *)
(* writes, arrayUnion / arrayRemove / increment are applied by the server  *)
(* to the stored value at the moment of the write.                         *)
(***************************************************************************)
EXTENDS Integers, Sequences, FiniteSets, TLC

\* ------------------------------------------------------------------------
\* Bounds of the model
\* ------------------------------------------------------------------------
Users == {"u1", "u2", "u3"}
Reactions == {"like", "love"}
MaxCalls == 2

Absent == "absent"

VARIABLES
    \* --- posts/<postId>.reactions and the reactToPost calls in flight ---
    reactions,      \* the stored reactions map: user -> reaction or Absent
    rPc,            \* per user: position of that user's reactToPost call
    rRead,          \* per user: the reactions map transaction.get returned
    rStale,         \* users whose transaction read a version since overwritten
    rHistory,       \* per user: the newReaction arguments of the calls so far
    rConflicted,    \* some reactToPost transaction was re-run after a conflict
    \* --- users/<id>.friendIds, friendRequests/<from>_<to>, acceptances ---
    svc,            \* which service variant the clients run
    friendIds,      \* user -> set of user ids
    requests,       \* the friendRequests documents that exist (all 'pending')
    aPc,            \* per client: position of its acceptFriendRequest call
    aCur,           \* per client: currentUserId of the call
    aReq,           \* per client: requestingUserId of the call
    aResult,        \* per client: outcome of its last call
    aStale,         \* clients whose transaction read a document since written
    aCalls,         \* per client: number of acceptFriendRequest calls made
    notifs,         \* pair -> 'friend_request_approved' notifications stored
    notifTasks,     \* pair -> _createNotification calls still running
    fCreated,       \* pair -> times the request document was created
    fWithdrawn,     \* pair -> times it was deleted by decline or cancel
    fAccepted,      \* pair -> acceptances that committed
    \* --- groups/<groupId> and the group transactions in flight ---
    gMembers,       \* members array (ids of the member objects)
    gMemberCount,   \* memberCount field
    gAdmins,        \* admins array
    gModerators,    \* moderators array
    gJoinRequests,  \* joinRequests array (ids of the requesting users)
    gPc,            \* per client: the group transaction it is running
    gArg,           \* per client: the userId argument of that call
    gRead,          \* per client: the group data transaction.get returned
    gStale,         \* clients whose read of the group was since overwritten
    \* --- group post moderation: posts/<postId>, groups/<groupId>.pendingPosts
    pStatus,        \* post -> 'pending', 'approved' or Absent (deleted)
    pPending,       \* ids of the posts listed in the group's pendingPosts
    pPc,            \* per client: position in approvePost / rejectPost
    pPost,          \* per client: the postId argument
    pRead,          \* per client: the pendingPosts ids getDoc returned
    \* --- daily notification shards (part_000) ---
    now,            \* the clock: ticks since 1970-01-01T00:00Z
    store,          \* the notification documents of all daily collections
    nextId,         \* next document id addDoc hands out
    cPc,            \* position of the running _createNotification call
    cRecipient,     \* its recipientId
    cCollection,    \* the collectionName it computed
    lShards,        \* collection names the listener subscribed to
    lDead,          \* shards whose listener reported an error
    lSeen,          \* shard -> stored documents of its latest snapshot
    dailyNotifications, \* the listener's Map, entries in insertion order
    delivered,      \* argument of the latest callback invocation
    lastMarked,     \* notifications passed to the latest markNotificationsAsRead
    markResult,     \* outcome of that call
    \* --- createPost and the Cloudinary upload helper ---
    posts,          \* the documents added to the posts collection, in order
    cpPc,           \* position of the running createPost call
    cpMedia,        \* its media argument
    cpPost,         \* postToSave: the media fields set so far
    cpReturned,     \* what uploadMediaToCloudinary returned for each upload
    cpFailed,       \* an upload of this call got a non-OK response
    cpResult,       \* outcome of the latest call
    cpCalls         \* number of createPost calls made

reactVars == <<reactions, rPc, rRead, rStale, rHistory, rConflicted>>
friendVars == <<svc, friendIds, requests, aPc, aCur, aReq, aResult, aStale,
                aCalls, notifs, notifTasks, fCreated, fWithdrawn, fAccepted>>

groupVars == <<gMembers, gMemberCount, gAdmins, gModerators, gJoinRequests,
               gPc, gArg, gRead, gStale>>

postVars == <<pStatus, pPending, pPc, pPost, pRead>>

notifVars == <<now, store, nextId, cPc, cRecipient, cCollection, lShards,
               lDead, lSeen, dailyNotifications, delivered, lastMarked,
               markResult>>

createVars == <<posts, cpPc, cpMedia, cpPost, cpReturned, cpFailed, cpResult,
                cpCalls>>

VARIABLES
    \* --- calls/<callId>, the two CallScreens and updateCallStatus calls ---
    callStatus,     \* status field of the call document, Absent once deleted
    callStatusRef,  \* per party: callStatusRef.current of its CallScreen
    mounted,        \* per party: its CallScreen is mounted
    goBackTimer,    \* per party: the 1.5 s onGoBack timer is set
    timeoutFired,   \* the caller's 30 s ringing timer has fired
    userLeftSeen,   \* per party: its 'user-left' handler has run
    ucCalls,        \* the updateCallStatus calls, in the order they started
    historyMessages,\* number of 'call_history' messages in the call's chat
    callChatLast,   \* type of the chat's lastMessage
    cleanupTimers   \* pending 5 s timers that delete the call document

callVars == <<callStatus, callStatusRef, mounted, goBackTimer, timeoutFired,
              userLeftSeen, ucCalls, historyMessages, callChatLast,
              cleanupTimers>>

VARIABLES
    \* --- liveVideoRooms/<roomId>.participants and one LiveVideoRoomScreen ---
    participants,   \* participants array (ids of the participant objects)
    screen,         \* the screen of the viewer: 'closed', 'mounted', 'unmounted'
    jPc,            \* position of the joinLiveVideoRoom call the mount started
    lPc,            \* position of the leaveLiveVideoRoom call of the cleanup
    sPc,            \* position of setupAgora and its participant-state update
    roomRead,       \* per operation: the participants transaction.get returned
    roomStale,      \* operations whose read of the room was since overwritten
    otherWrites     \* writes to the room made by other clients so far

roomVars == <<participants, screen, jPc, lPc, sPc, roomRead, roomStale,
              otherWrites>>

VARIABLES
    \* --- chats/<chatId>, its messages, sendMessage / unsendMessage calls ---
    chatMessages,   \* the message documents, by id: sender, isDeleted, text
    lastMessage,    \* the chat document's lastMessage map
    unreadCount,    \* the chat document's unreadCount map: user -> count
    unreadDotted,   \* user -> the top-level field named 'unreadCount.<user>'
    smPc,           \* per sender: position of that user's sendMessage call
    smId,           \* per sender: id addDoc gave to the message of the call
    umPc,           \* per caller: position of that user's unsendMessage call
    umMessage,      \* per caller: the messageId argument
    sentSince,      \* per user: messages sent to the user since the user's
                    \* last markMessagesAsRead
    conversations   \* per user: what listenToConversations last reported

chatVars == <<chatMessages, lastMessage, unreadCount, unreadDotted, smPc,
              smId, umPc, umMessage, sentSince, conversations>>

VARIABLES
    \* --- auth accounts, users/<uid>, usernames/<name>, sign-up calls ---
    accounts,       \* the auth accounts, in creation order: their emails
    profiles,       \* uid -> the username of users/<uid>, None when missing
    usernames,      \* name -> the userId of usernames/<name>, 0 when missing
    suPc,           \* per client: position of its signUpWithEmail call
    suUid,          \* per client: uid of the account the call created
    suName,         \* per client: the username argument of the call
    suTaken,        \* per client: what its last isUsernameTaken returned
    suResult,       \* per client: what its last signUpWithEmail returned
    signedIn        \* per client: the email its last signInWithEmail used

userVars == <<accounts, profiles, usernames, suPc, suUid, suName, suTaken,
              suResult, signedIn>>

VARIABLES
    \* --- posts/<postId>.poll and the voteOnPoll calls in flight ---
    pollOptions,    \* poll.options: per option its votes and votedBy list
    vPc,            \* per client: position of its voteOnPoll call
    vUser,          \* per client: the userId argument
    vIndex,         \* per client: the optionIndex argument
    vRead,          \* per client: the options transaction.get returned
    vResult,        \* per client: what its last call returned
    vStale,         \* clients whose read of the post was since overwritten
    vCalls,         \* per client: number of voteOnPoll calls made
    vConflicted     \* clients whose current call was re-run after a conflict

pollVars == <<pollOptions, vPc, vUser, vIndex, vRead, vResult, vStale, vCalls,
              vConflicted>>

VARIABLES
    \* --- one message document, its reactions, reaction calls in flight ---
    msgKind,        \* 'chat' (reactToMessage) or 'liveAudioRoom'
                    \* (reactToLiveAudioRoomMessage)
    msgReactions,   \* the reactions object: entries emoji -> user ids, in
                    \* key order
    mPc,            \* per client: position of its reaction call
    mUser,          \* per client: the userId argument
    mEmoji,         \* per client: the emoji argument
    mRead,          \* per client: the reactions transaction.get returned
    mStale,         \* clients whose read of the message was since overwritten
    mCalls,         \* per client: number of reaction calls made
    mConflicted     \* clients whose current call was re-run after a conflict

msgVars == <<msgKind, msgReactions, mPc, mUser, mEmoji, mRead, mStale, mCalls,
             mConflicted>>

vars == <<reactVars, friendVars, groupVars, postVars, notifVars,
          createVars, callVars, roomVars, chatVars, userVars, pollVars,
          msgVars>>

\* ------------------------------------------------------------------------
\* reactToPost (firebaseService.ts 644-669)
\* ------------------------------------------------------------------------
ReactFrame ==
    UNCHANGED <<friendVars, groupVars, postVars, notifVars, createVars,
                callVars, roomVars, chatVars, userVars, pollVars, msgVars>>

\* lines 652-660: copy the map, delete the entry when the reaction repeats,
\* otherwise set it
ToggleReaction(map, userId, newReaction) ==
    IF map[userId] = newReaction
    THEN [map EXCEPT ![userId] = Absent]
    ELSE [map EXCEPT ![userId] = newReaction]

\* a post is created with reactions: {}
NoReactions == [u \in Users |-> Absent]

\* the newReaction argument of the call a user has in flight
NewReaction(userId) == rHistory[userId][Len(rHistory[userId])]

\* a transaction whose read document was written since must re-run its body
TxnConflictAlways(stale, p) == FALSE
TxnConflict(stale, p) == p \in stale

\* the call starts: runTransaction begins the first attempt
ReactToPost(userId, newReaction) ==
    /\ rPc[userId] = "idle"
    /\ Len(rHistory[userId]) < MaxCalls
    /\ rPc' = [rPc EXCEPT ![userId] = "get"]
    /\ rHistory' = [rHistory EXCEPT ![userId] = Append(@, newReaction)]
    /\ UNCHANGED <<reactions, rRead, rStale, rConflicted>>
    /\ ReactFrame

\* line 648: transaction.get(postRef)
ReactTxnGet(userId) ==
    /\ rPc[userId] = "get"
    /\ rRead' = [rRead EXCEPT ![userId] = reactions]
    /\ rStale' = rStale \ {userId}
    /\ rPc' = [rPc EXCEPT ![userId] = "commit"]
    /\ UNCHANGED <<reactions, rHistory, rConflicted>>
    /\ ReactFrame

\* line 662 and the commit of runTransaction: the write is applied only when
\* the post was not written since the read
ReactTxnCommit(userId) ==
    /\ rPc[userId] = "commit"
    /\ ~TxnConflict(rStale, userId)
    /\ reactions' = ToggleReaction(rRead[userId], userId, NewReaction(userId))
    /\ rStale' = {u \in Users \ {userId} : rPc[u] = "commit"}
    /\ rPc' = [rPc EXCEPT ![userId] = "idle"]
    /\ rRead' = [rRead EXCEPT ![userId] = NoReactions]
    /\ UNCHANGED <<rHistory, rConflicted>>
    /\ ReactFrame

\* the commit is rejected, runTransaction runs the body again
ReactTxnRetry(userId) ==
    /\ rPc[userId] = "commit"
    /\ TxnConflict(rStale, userId)
    /\ rPc' = [rPc EXCEPT ![userId] = "get"]
    /\ rRead' = [rRead EXCEPT ![userId] = NoReactions]
    /\ rStale' = rStale \ {userId}
    /\ rConflicted' = TRUE
    /\ UNCHANGED <<reactions, rHistory>>
    /\ ReactFrame

InitReact ==
    /\ reactions = NoReactions
    /\ rPc = [u \in Users |-> "idle"]
    /\ rRead = [u \in Users |-> NoReactions]
    /\ rStale = {}
    /\ rHistory = [u \in Users |-> <<>>]
    /\ rConflicted = FALSE

NextReact ==
    \/ \E u \in Users, r \in Reactions : ReactToPost(u, r)
    \/ \E u \in Users : ReactTxnGet(u)
    \/ \E u \in Users : ReactTxnCommit(u)
    \/ \E u \in Users : ReactTxnRetry(u)


\* ------------------------------------------------------------------------
\* Friend requests (firebaseService.ts 320-419, part_000 456-541)
\* ------------------------------------------------------------------------
Clients == {"c1", "c2"}
Variants == {"firebaseService", "part_000"}
FriendUsers == {"u1", "u2"}
Pairs == {pr \in FriendUsers \X FriendUsers : pr[1] # pr[2]}
MaxRequests == 2
MaxNotifs == 2
MaxAcceptCalls == 1

RECURSIVE SumOver(_, _)
SumOver(f, S) ==
    IF S = {} THEN 0
    ELSE LET x == CHOOSE y \in S : TRUE IN f[x] + SumOver(f, S \ {x})

FriendFrame ==
    UNCHANGED <<reactVars, groupVars, postVars, notifVars, createVars,
                callVars, roomVars, chatVars, userVars, pollVars, msgVars>>

\* the documents a client's transaction has read so far in this attempt
AcceptReadsRequest(c, pr) ==
    /\ aPc[c] \in {"get_user", "commit"}
    /\ <<aReq[c], aCur[c]>> = pr
AcceptReadsUser(c, u) ==
    /\ aPc[c] = "commit"
    /\ aCur[c] = u

\* clients whose attempt is invalidated by a write to the request document
\* of pr and to the user documents in written
Invalidated(pr, written) ==
    {c \in Clients : AcceptReadsRequest(c, pr)
                     \/ \E u \in written : AcceptReadsUser(c, u)}

\* addFriend: both profiles exist, setDoc creates or overwrites the request
AddFriend(currentUserId, targetUserId) ==
    LET pr == <<currentUserId, targetUserId>> IN
    /\ currentUserId # targetUserId
    /\ pr \in requests \/ SumOver(fCreated, Pairs) < MaxRequests
    /\ requests' = requests \cup {pr}
    /\ fCreated' = IF pr \in requests THEN fCreated
                   ELSE [fCreated EXCEPT ![pr] = @ + 1]
    /\ aStale' = aStale \cup Invalidated(pr, {})
    /\ UNCHANGED <<svc, friendIds, aPc, aCur, aReq, aResult, aCalls, notifs,
                   notifTasks, fWithdrawn, fAccepted>>
    /\ FriendFrame

\* deleteDoc of friendRequests/<from>_<to>, shared by decline and cancel
DeleteRequest(pr) ==
    /\ requests' = requests \ {pr}
    /\ fWithdrawn' = IF pr \in requests THEN [fWithdrawn EXCEPT ![pr] = @ + 1]
                     ELSE fWithdrawn
    /\ aStale' = IF pr \in requests THEN aStale \cup Invalidated(pr, {})
                 ELSE aStale
    /\ UNCHANGED <<svc, friendIds, aPc, aCur, aReq, aResult, aCalls, notifs,
                   notifTasks, fCreated, fAccepted>>
    /\ FriendFrame

DeclineFriendRequest(currentUserId, requestingUserId) ==
    /\ currentUserId # requestingUserId
    /\ DeleteRequest(<<requestingUserId, currentUserId>>)

CancelFriendRequest(currentUserId, targetUserId) ==
    /\ currentUserId # targetUserId
    /\ DeleteRequest(<<currentUserId, targetUserId>>)

\* unfriendUser: one transaction (firebaseService.ts) or one write batch
\* (part_000) holding both arrayRemove updates
UnfriendUser(currentUserId, targetUserId) ==
    /\ currentUserId # targetUserId
    /\ friendIds' = [friendIds EXCEPT ![currentUserId] = @ \ {targetUserId},
                                      ![targetUserId] = @ \ {currentUserId}]
    /\ aStale' = aStale \cup Invalidated(<<"none", "none">>,
                                         {currentUserId, targetUserId})
    /\ UNCHANGED <<svc, requests, aPc, aCur, aReq, aResult, aCalls, notifs,
                   notifTasks, fCreated, fWithdrawn, fAccepted>>
    /\ FriendFrame

\* acceptFriendRequest is called: runTransaction starts its first attempt
AcceptFriendRequest(c, currentUserId, requestingUserId) ==
    /\ aPc[c] = "idle"
    /\ currentUserId # requestingUserId
    /\ aCalls[c] < MaxAcceptCalls
    /\ aPc' = [aPc EXCEPT ![c] = "get_request"]
    /\ aCur' = [aCur EXCEPT ![c] = currentUserId]
    /\ aReq' = [aReq EXCEPT ![c] = requestingUserId]
    /\ aResult' = [aResult EXCEPT ![c] = "none"]
    /\ aCalls' = [aCalls EXCEPT ![c] = @ + 1]
    /\ aStale' = aStale \ {c}
    /\ UNCHANGED <<svc, friendIds, requests, notifs, notifTasks, fCreated,
                   fWithdrawn, fAccepted>>
    /\ FriendFrame

\* requestDoc.exists() && status === 'pending'
RequestPendingAlways(reqs, pr) == TRUE
RequestPending(reqs, pr) == pr \in reqs

\* transaction.get(requestDocRef); a missing request throws out of the
\* body, which ends the transaction without a commit
AcceptGetRequest(c) ==
    LET pr == <<aReq[c], aCur[c]>> IN
    /\ aPc[c] = "get_request"
    /\ aStale' = aStale \ {c}
    /\ IF RequestPending(requests, pr)
       THEN /\ aPc' = [aPc EXCEPT ![c] = "get_user"]
            /\ UNCHANGED aResult
       ELSE /\ aPc' = [aPc EXCEPT ![c] = "idle"]
            /\ aResult' = [aResult EXCEPT ![c] = "not_found"]
    /\ UNCHANGED <<svc, friendIds, requests, aCur, aReq, aCalls, notifs,
                   notifTasks, fCreated, fWithdrawn, fAccepted>>
    /\ FriendFrame

\* transaction.get(currentUserRef) and the rest of the body: the writes are
\* buffered; part_000 line 508 starts _createNotification from inside the body
AcceptGetUser(c) ==
    LET pr == <<aReq[c], aCur[c]>> IN
    /\ aPc[c] = "get_user"
    /\ aPc' = [aPc EXCEPT ![c] = "commit"]
    /\ IF svc = "part_000"
       THEN /\ SumOver(notifs, Pairs) + SumOver(notifTasks, Pairs) < MaxNotifs
            /\ notifTasks' = [notifTasks EXCEPT ![pr] = @ + 1]
       ELSE UNCHANGED notifTasks
    /\ UNCHANGED <<svc, friendIds, requests, aCur, aReq, aResult, aStale,
                   aCalls, notifs, fCreated, fWithdrawn, fAccepted>>
    /\ FriendFrame

\* the arrayUnion updates of both user documents
AcceptFriendIdsOneSided(f, cur, req) == [f EXCEPT ![cur] = @ \cup {req}]
AcceptFriendIds(f, cur, req) ==
    [f EXCEPT ![cur] = @ \cup {req}, ![req] = @ \cup {cur}]

\* the commit: both updates, the delete of the request and, in
\* firebaseService.ts, the set of the notification document, in one write
AcceptCommit(c) ==
    LET pr == <<aReq[c], aCur[c]>> IN
    /\ aPc[c] = "commit"
    /\ ~TxnConflict(aStale, c)
    /\ friendIds' = AcceptFriendIds(friendIds, aCur[c], aReq[c])
    /\ requests' = requests \ {pr}
    /\ notifs' = IF svc = "firebaseService"
                 THEN [notifs EXCEPT ![pr] = @ + 1] ELSE notifs
    /\ fAccepted' = [fAccepted EXCEPT ![pr] = @ + 1]
    /\ aPc' = [aPc EXCEPT ![c] = "idle"]
    /\ aResult' = [aResult EXCEPT ![c] = "ok"]
    /\ aStale' = (aStale \cup Invalidated(pr, {aCur[c], aReq[c]})) \ {c}
    /\ UNCHANGED <<svc, aCur, aReq, aCalls, notifTasks, fCreated, fWithdrawn>>
    /\ FriendFrame

\* the commit is rejected, runTransaction runs the body again
AcceptRetry(c) ==
    /\ aPc[c] = "commit"
    /\ TxnConflict(aStale, c)
    /\ aPc' = [aPc EXCEPT ![c] = "get_request"]
    /\ UNCHANGED <<svc, friendIds, requests, aCur, aReq, aResult, aStale,
                   aCalls, notifs, notifTasks, fCreated, fWithdrawn, fAccepted>>
    /\ FriendFrame

\* part_000 _createNotification running on its own: addDoc of the
\* notification ('friend_request_approved' is always enabled)
CreateApprovedNotification(pr) ==
    /\ notifTasks[pr] > 0
    /\ notifTasks' = [notifTasks EXCEPT ![pr] = @ - 1]
    /\ notifs' = [notifs EXCEPT ![pr] = @ + 1]
    /\ UNCHANGED <<svc, friendIds, requests, aPc, aCur, aReq, aResult, aStale,
                   aCalls, fCreated, fWithdrawn, fAccepted>>
    /\ FriendFrame

InitFriends ==
    /\ svc \in Variants
    /\ friendIds = [u \in FriendUsers |-> {}]
    /\ requests = {}
    /\ aPc = [c \in Clients |-> "idle"]
    /\ aCur = [c \in Clients |-> "u1"]
    /\ aReq = [c \in Clients |-> "u2"]
    /\ aResult = [c \in Clients |-> "none"]
    /\ aStale = {}
    /\ aCalls = [c \in Clients |-> 0]
    /\ notifs = [pr \in Pairs |-> 0]
    /\ notifTasks = [pr \in Pairs |-> 0]
    /\ fCreated = [pr \in Pairs |-> 0]
    /\ fWithdrawn = [pr \in Pairs |-> 0]
    /\ fAccepted = [pr \in Pairs |-> 0]

NextFriends ==
    \/ \E a, b \in FriendUsers : AddFriend(a, b)
    \/ \E a, b \in FriendUsers : DeclineFriendRequest(a, b)
    \/ \E a, b \in FriendUsers : CancelFriendRequest(a, b)
    \/ \E a, b \in FriendUsers : UnfriendUser(a, b)
    \/ \E c \in Clients, a, b \in FriendUsers : AcceptFriendRequest(c, a, b)
    \/ \E c \in Clients : AcceptGetRequest(c)
    \/ \E c \in Clients : AcceptGetUser(c)
    \/ \E c \in Clients : AcceptCommit(c)
    \/ \E c \in Clients : AcceptRetry(c)
    \/ \E pr \in Pairs : CreateApprovedNotification(pr)

\* ------------------------------------------------------------------------
\* Groups (firebaseService.ts 1877-1912, 2075-2148; part_000 2032-2053)
\* ------------------------------------------------------------------------
GroupUsers == {"u1", "u2"}
Creator == "u1"
MaxCount == 3
MaxDeficit == 1

GroupFrame ==
    UNCHANGED <<reactVars, friendVars, postVars, notifVars, createVars,
                callVars, roomVars, chatVars, userVars, pollVars, msgVars>>

NoRead == [members |-> <<>>, admins |-> {}, moderators |-> {},
           joinRequests |-> {}]

\* arrayUnion on an array field: appended unless an equal element is there
ArrayUnion(arr, x) ==
    IF \E i \in 1..Len(arr) : arr[i] = x THEN arr ELSE Append(arr, x)

\* members.filter(m => m.id !== userId)
WithoutMember(arr, userId) == SelectSeq(arr, LAMBDA m : m # userId)

IsMember(arr, userId) == \E i \in 1..Len(arr) : arr[i] = userId

\* every write of the group document invalidates the transactions that read it
GroupWritten(c) == {d \in Clients \ {c} : gPc[d] # "idle"}

\* joinGroup: one updateDoc carrying arrayUnion and increment(1)
JoinGroup(userId) ==
    /\ gMemberCount < MaxCount
    /\ gMembers' = ArrayUnion(gMembers, userId)
    /\ gMemberCount' = gMemberCount + 1
    /\ gStale' = gStale \cup GroupWritten("none")
    /\ UNCHANGED <<gAdmins, gModerators, gJoinRequests, gPc, gArg, gRead>>
    /\ GroupFrame

\* part_000 joinGroup on a group that is not public: the request is queued
RequestToJoin(userId) ==
    /\ gJoinRequests' = gJoinRequests \cup {userId}
    /\ gStale' = gStale \cup GroupWritten("none")
    /\ UNCHANGED <<gMembers, gMemberCount, gAdmins, gModerators, gPc, gArg,
                   gRead>>
    /\ GroupFrame

\* what the body of each transaction takes from the group document it read
ReadFor(op) ==
    IF op \in {"leaveGroup", "removeGroupMember"}
    THEN [NoRead EXCEPT !.members = gMembers, !.admins = gAdmins,
                        !.moderators = gModerators]
    ELSE [NoRead EXCEPT !.joinRequests = gJoinRequests]

\* leaveGroup is called: the transaction starts and reads the group document
LeaveGroup(c, userId) ==
    /\ gPc[c] = "idle"
    /\ gPc' = [gPc EXCEPT ![c] = "leaveGroup"]
    /\ gArg' = [gArg EXCEPT ![c] = userId]
    /\ gRead' = [gRead EXCEPT ![c] = ReadFor("leaveGroup")]
    /\ UNCHANGED <<gMembers, gMemberCount, gAdmins, gModerators,
                   gJoinRequests, gStale>>
    /\ GroupFrame

\* removeGroupMember is called
RemoveGroupMember(c, userId) ==
    /\ gPc[c] = "idle"
    /\ gPc' = [gPc EXCEPT ![c] = "removeGroupMember"]
    /\ gArg' = [gArg EXCEPT ![c] = userId]
    /\ gRead' = [gRead EXCEPT ![c] = ReadFor("removeGroupMember")]
    /\ UNCHANGED <<gMembers, gMemberCount, gAdmins, gModerators,
                   gJoinRequests, gStale>>
    /\ GroupFrame

\* approveJoinRequest is called
ApproveJoinRequest(c, userId) ==
    /\ gPc[c] = "idle"
    /\ gPc' = [gPc EXCEPT ![c] = "approveJoinRequest"]
    /\ gArg' = [gArg EXCEPT ![c] = userId]
    /\ gRead' = [gRead EXCEPT ![c] = ReadFor("approveJoinRequest")]
    /\ UNCHANGED <<gMembers, gMemberCount, gAdmins, gModerators,
                   gJoinRequests, gStale>>
    /\ GroupFrame

\* rejectJoinRequest is called
RejectJoinRequest(c, userId) ==
    /\ gPc[c] = "idle"
    /\ gPc' = [gPc EXCEPT ![c] = "rejectJoinRequest"]
    /\ gArg' = [gArg EXCEPT ![c] = userId]
    /\ gRead' = [gRead EXCEPT ![c] = ReadFor("rejectJoinRequest")]
    /\ UNCHANGED <<gMembers, gMemberCount, gAdmins, gModerators,
                   gJoinRequests, gStale>>
    /\ GroupFrame

\* the commit is rejected: the body runs again and reads the group again
GroupTxnRetry(c) ==
    /\ gPc[c] # "idle"
    /\ TxnConflict(gStale, c)
    /\ gRead' = [gRead EXCEPT ![c] = ReadFor(gPc[c])]
    /\ gStale' = gStale \ {c}
    /\ UNCHANGED <<gMembers, gMemberCount, gAdmins, gModerators,
                   gJoinRequests, gPc, gArg>>
    /\ GroupFrame

GroupTxnEnd(c) ==
    /\ gPc' = [gPc EXCEPT ![c] = "idle"]
    /\ gRead' = [gRead EXCEPT ![c] = NoRead]
    /\ gStale' = (gStale \cup GroupWritten(c)) \ {c}
    /\ gArg' = [gArg EXCEPT ![c] = Creator]
    /\ GroupFrame

\* leaveGroup: the filtered arrays and increment(-1), member or not
LeaveGroupCommit(c) ==
    /\ gPc[c] = "leaveGroup"
    /\ ~TxnConflict(gStale, c)
    /\ gMemberCount > -MaxDeficit
    /\ gMembers' = WithoutMember(gRead[c].members, gArg[c])
    /\ gAdmins' = gRead[c].admins \ {gArg[c]}
    /\ gModerators' = gRead[c].moderators \ {gArg[c]}
    /\ gMemberCount' = gMemberCount - 1
    /\ UNCHANGED gJoinRequests
    /\ GroupTxnEnd(c)

\* removeGroupMember: increment(-1) only when the user is in members
RemoveGroupMemberCommit(c) ==
    /\ gPc[c] = "removeGroupMember"
    /\ ~TxnConflict(gStale, c)
    /\ gMembers' = WithoutMember(gRead[c].members, gArg[c])
    /\ gAdmins' = gRead[c].admins \ {gArg[c]}
    /\ gModerators' = gRead[c].moderators \ {gArg[c]}
    /\ gMemberCount' = IF IsMember(gRead[c].members, gArg[c])
                       THEN gMemberCount - 1 ELSE gMemberCount
    /\ UNCHANGED gJoinRequests
    /\ GroupTxnEnd(c)

\* approveJoinRequest: nothing is written when the request is not listed
ApproveJoinRequestCommit(c) ==
    /\ gPc[c] = "approveJoinRequest"
    /\ ~TxnConflict(gStale, c)
    /\ IF gArg[c] \notin gRead[c].joinRequests
       THEN /\ UNCHANGED <<gMembers, gMemberCount, gAdmins, gModerators,
                           gJoinRequests>>
            /\ gPc' = [gPc EXCEPT ![c] = "idle"]
            /\ gRead' = [gRead EXCEPT ![c] = NoRead]
            /\ gArg' = [gArg EXCEPT ![c] = Creator]
            /\ UNCHANGED gStale
            /\ GroupFrame
       ELSE /\ gMemberCount < MaxCount
            /\ gJoinRequests' = gRead[c].joinRequests \ {gArg[c]}
            /\ gMembers' = ArrayUnion(gMembers, gArg[c])
            /\ gMemberCount' = gMemberCount + 1
            /\ UNCHANGED <<gAdmins, gModerators>>
            /\ GroupTxnEnd(c)

\* rejectJoinRequest: the filtered joinRequests
RejectJoinRequestCommit(c) ==
    /\ gPc[c] = "rejectJoinRequest"
    /\ ~TxnConflict(gStale, c)
    /\ gJoinRequests' = gRead[c].joinRequests \ {gArg[c]}
    /\ UNCHANGED <<gMembers, gMemberCount, gAdmins, gModerators>>
    /\ GroupTxnEnd(c)

\* the state createGroup writes: the creator is the only member and admin
InitGroup ==
    /\ gMembers = <<Creator>>
    /\ gMemberCount = 1
    /\ gAdmins = {Creator}
    /\ gModerators = {}
    /\ gJoinRequests = {}
    /\ gPc = [c \in Clients |-> "idle"]
    /\ gArg = [c \in Clients |-> Creator]
    /\ gRead = [c \in Clients |-> NoRead]
    /\ gStale = {}

NextGroup ==
    \/ \E u \in GroupUsers : JoinGroup(u)
    \/ \E u \in GroupUsers : RequestToJoin(u)
    \/ \E c \in Clients, u \in GroupUsers : LeaveGroup(c, u)
    \/ \E c \in Clients, u \in GroupUsers : RemoveGroupMember(c, u)
    \/ \E c \in Clients, u \in GroupUsers : ApproveJoinRequest(c, u)
    \/ \E c \in Clients, u \in GroupUsers : RejectJoinRequest(c, u)
    \/ \E c \in Clients : GroupTxnRetry(c)
    \/ \E c \in Clients : LeaveGroupCommit(c)
    \/ \E c \in Clients : RemoveGroupMemberCommit(c)
    \/ \E c \in Clients : ApproveJoinRequestCommit(c)
    \/ \E c \in Clients : RejectJoinRequestCommit(c)

\* ------------------------------------------------------------------------
\* Moderation of group posts (firebaseService.ts 2149-2190)
\* ------------------------------------------------------------------------
GroupPosts == {"p1", "p2", "p3"}

PostFrame ==
    UNCHANGED <<reactVars, friendVars, groupVars, notifVars, createVars,
                callVars, roomVars, chatVars, userVars, pollVars, msgVars>>

\* approvePost is called: updateDoc(postRef, {status: 'approved'}) throws
\* when the post is gone, and the catch returns false
ApprovePost(c, postId) ==
    /\ pPc[c] = "idle"
    /\ IF pStatus[postId] = Absent
       THEN UNCHANGED <<pStatus, pPc, pPost>>
       ELSE /\ pStatus' = [pStatus EXCEPT ![postId] = "approved"]
            /\ pPc' = [pPc EXCEPT ![c] = "approve_getPost"]
            /\ pPost' = [pPost EXCEPT ![c] = postId]
    /\ UNCHANGED <<pPending, pRead>>
    /\ PostFrame

\* line 2153: getDoc(postRef); every post here carries a groupId
ApproveGetPost(c) ==
    /\ pPc[c] = "approve_getPost"
    /\ pPc' = [pPc EXCEPT ![c] = IF pStatus[pPost[c]] = Absent THEN "idle"
                                 ELSE "approve_getGroup"]
    /\ UNCHANGED <<pStatus, pPending, pPost, pRead>>
    /\ PostFrame

\* line 2157: getDoc(groupRef)
ApproveGetGroup(c) ==
    /\ pPc[c] = "approve_getGroup"
    /\ pRead' = [pRead EXCEPT ![c] = pPending]
    /\ pPc' = [pPc EXCEPT ![c] = "approve_update"]
    /\ UNCHANGED <<pStatus, pPending, pPost>>
    /\ PostFrame

\* lines 2160-2161: the list that was read, minus the post, is written back
ApproveUpdateGroup(c) ==
    /\ pPc[c] = "approve_update"
    /\ pPending' = pRead[c] \ {pPost[c]}
    /\ pPc' = [pPc EXCEPT ![c] = "idle"]
    /\ pRead' = [pRead EXCEPT ![c] = {}]
    /\ UNCHANGED <<pStatus, pPost>>
    /\ PostFrame

\* rejectPost is called: line 2173 getDoc(postRef)
RejectPost(c, postId) ==
    /\ pPc[c] = "idle"
    /\ pPost' = [pPost EXCEPT ![c] = postId]
    /\ pPc' = [pPc EXCEPT ![c] = IF pStatus[postId] = Absent
                                 THEN "reject_delete" ELSE "reject_getGroup"]
    /\ UNCHANGED <<pStatus, pPending, pRead>>
    /\ PostFrame

\* line 2177: getDoc(groupRef)
RejectGetGroup(c) ==
    /\ pPc[c] = "reject_getGroup"
    /\ pRead' = [pRead EXCEPT ![c] = pPending]
    /\ pPc' = [pPc EXCEPT ![c] = "reject_update"]
    /\ UNCHANGED <<pStatus, pPending, pPost>>
    /\ PostFrame

\* lines 2180-2181
RejectUpdateGroup(c) ==
    /\ pPc[c] = "reject_update"
    /\ pPending' = pRead[c] \ {pPost[c]}
    /\ pPc' = [pPc EXCEPT ![c] = "reject_delete"]
    /\ pRead' = [pRead EXCEPT ![c] = {}]
    /\ UNCHANGED <<pStatus, pPost>>
    /\ PostFrame

\* line 2184: deleteDoc(postRef)
RejectDeletePost(c) ==
    /\ pPc[c] = "reject_delete"
    /\ pStatus' = [pStatus EXCEPT ![pPost[c]] = Absent]
    /\ pPc' = [pPc EXCEPT ![c] = "idle"]
    /\ UNCHANGED <<pPending, pPost, pRead>>
    /\ PostFrame

\* the posts of a group that requires approval wait in pendingPosts
InitPosts ==
    /\ pStatus = [p \in GroupPosts |-> "pending"]
    /\ pPending = GroupPosts
    /\ pPc = [c \in Clients |-> "idle"]
    /\ pPost = [c \in Clients |-> "p1"]
    /\ pRead = [c \in Clients |-> {}]

NextPosts ==
    \/ \E c \in Clients, p \in GroupPosts : ApprovePost(c, p)
    \/ \E c \in Clients : ApproveGetPost(c)
    \/ \E c \in Clients : ApproveGetGroup(c)
    \/ \E c \in Clients : ApproveUpdateGroup(c)
    \/ \E c \in Clients, p \in GroupPosts : RejectPost(c, p)
    \/ \E c \in Clients : RejectGetGroup(c)
    \/ \E c \in Clients : RejectUpdateGroup(c)
    \/ \E c \in Clients : RejectDeletePost(c)

\* ------------------------------------------------------------------------
\* Dates (JavaScript Date in UTC, toISOString, new Date(string))
\* ------------------------------------------------------------------------
TicksPerDay == 2
\* the clock starts on 2024-02-29, day 19782 since 1970-01-01
StartDay == 19782
MaxTicks == 3

\* Date.getUTCFullYear / getUTCMonth + 1 / getUTCDate of a time value
CivilFromDays(days) ==
    LET z == days + 719468
        era == z \div 146097
        doe == z - era * 146097
        yoe == (doe - doe \div 1460 + doe \div 36524 - doe \div 146096) \div 365
        doy == doe - (365 * yoe + yoe \div 4 - yoe \div 100)
        mp == (5 * doy + 2) \div 153
        d == doy - (153 * mp + 2) \div 5 + 1
        m == IF mp < 10 THEN mp + 3 ELSE mp - 9
        y == yoe + era * 400 + (IF m <= 2 THEN 1 ELSE 0)
    IN [year |-> y, month |-> m, day |-> d]

\* the day number new Date(isoString) computes from year, month and day
DaysFromCivil(year, month, day) ==
    LET y == IF month <= 2 THEN year - 1 ELSE year
        era == y \div 400
        yoe == y - era * 400
        doy == (153 * (IF month > 2 THEN month - 3 ELSE month + 9) + 2) \div 5
               + day - 1
        doe == yoe * 365 + yoe \div 4 - yoe \div 100 + doy
    IN era * 146097 + doe - 719468

\* date.toISOString(): the calendar fields and the time of day
ToISOString(t) ==
    LET c == CivilFromDays(t \div TicksPerDay)
    IN [year |-> c.year, month |-> c.month, day |-> c.day,
        tick |-> t % TicksPerDay]

\* new Date(isoString).getTime()
ParseISO(str) ==
    DaysFromCivil(str.year, str.month, str.day) * TicksPerDay + str.tick

\* n.toString().padStart(2, '0')
PadStart2(n) == <<n \div 10, n % 10>>

\* getDailyCollectionName of a Date: notifications_YYYY_MM_DD in UTC
DailyNameOfTime(t) ==
    LET c == CivilFromDays(t \div TicksPerDay)
    IN <<c.year, PadStart2(c.month), PadStart2(c.day)>>

\* getDailyCollectionName of a string: new Date(date) first
getDailyCollectionName(str) == DailyNameOfTime(ParseISO(str))

\* ------------------------------------------------------------------------
\* Daily notification shards (part_000 67-135, 339-409)
\* ------------------------------------------------------------------------
NotifUsers == {"u1", "u2"}
Subscriber == "u1"
NotificationLimit == 50
ShardDays == 30
BacklogSize == 51
MaxDocs == 1

NotifFrame ==
    UNCHANGED <<reactVars, friendVars, groupVars, postVars, createVars,
                callVars, roomVars, chatVars, userVars, pollVars, msgVars>>

StartTick == StartDay * TicksPerDay
\* marks a shard that has delivered no snapshot (no document has id 0)
NoSnapshot == {[id |-> 0, coll |-> <<>>, recipientId |-> "none",
                createdAt |-> ToISOString(0), read |-> FALSE]}

\* the daily collections of the days the clock passes through; older shards
\* hold no documents, their snapshots are empty and add nothing to the
\* combined list
ModelShards ==
    {DailyNameOfTime(StartTick + i * TicksPerDay) :
        i \in 0..(MaxTicks \div TicksPerDay)}

\* notifications the subscriber received on the first day
Backlog ==
    {[id |-> i, coll |-> DailyNameOfTime(StartTick),
      recipientId |-> Subscriber, createdAt |-> ToISOString(StartTick),
      read |-> FALSE] : i \in 1..BacklogSize}

\* the wall clock advances on its own
Tick ==
    /\ now < StartTick + MaxTicks
    /\ now' = now + 1
    /\ UNCHANGED <<store, nextId, cPc, cRecipient, cCollection, lShards,
                   lDead, lSeen, dailyNotifications, delivered, lastMarked,
                   markResult>>
    /\ NotifFrame

\* _createNotification up to line 106: nothing happens for the actor's own
\* actions; the recipient exists and has the type enabled; the collection
\* name is taken from new Date()
CreateNotification(recipientId, actorId) ==
    /\ cPc = "idle"
    /\ recipientId # actorId
    /\ nextId <= BacklogSize + MaxDocs
    /\ cPc' = "named"
    /\ cRecipient' = recipientId
    /\ cCollection' = DailyNameOfTime(now)
    /\ UNCHANGED <<now, store, nextId, lShards, lDead, lSeen,
                   dailyNotifications, delivered, lastMarked, markResult>>
    /\ NotifFrame

\* lines 116-131: createdAt is a second new Date(), then addDoc
CreateNotificationAdd ==
    /\ cPc = "named"
    /\ store' = store \cup {[id |-> nextId, coll |-> cCollection,
                             recipientId |-> cRecipient,
                             createdAt |-> ToISOString(now),
                             read |-> FALSE]}
    /\ nextId' = nextId + 1
    /\ cPc' = "idle"
    /\ UNCHANGED <<now, cRecipient, cCollection, lShards, lDead, lSeen,
                   dailyNotifications, delivered, lastMarked, markResult>>
    /\ NotifFrame

\* --- the listener's Map ---
MapHas(map, key) == \E i \in 1..Len(map) : map[i].key = key
MapSet(map, key, val) ==
    IF MapHas(map, key)
    THEN [i \in 1..Len(map) |->
             IF map[i].key = key THEN [key |-> key, val |-> val] ELSE map[i]]
    ELSE Append(map, [key |-> key, val |-> val])
MapDelete(map, key) == SelectSeq(map, LAMBDA e : e.key # key)

\* Array.from(map.values()).flat()
RECURSIVE Flat(_)
Flat(map) == IF map = <<>> THEN <<>> ELSE Head(map).val \o Flat(Tail(map))

\* combined.sort by createdAt, newest first; Array.prototype.sort is stable
RECURSIVE SortByCreatedAtDesc(_)
SortByCreatedAtDesc(seq) ==
    IF seq = <<>> THEN <<>>
    ELSE LET times == {ParseISO(seq[i].createdAt) : i \in 1..Len(seq)}
             newest == CHOOSE t \in times : \A u \in times : t >= u
         IN SelectSeq(seq, LAMBDA n : ParseISO(n.createdAt) = newest)
            \o SortByCreatedAtDesc(
                   SelectSeq(seq, LAMBDA n : ParseISO(n.createdAt) # newest))

\* combined.slice(0, 50)
SliceAll(seq, n) == seq
Slice(seq, n) == SubSeq(seq, 1, IF Len(seq) < n THEN Len(seq) ELSE n)

\* processAndCallback: what the callback receives
ProcessAndCallback(map) ==
    Slice(SortByCreatedAtDesc(Flat(map)), NotificationLimit)

\* data.createdAt instanceof Timestamp: _createNotification stores strings
IsTimestamp(v) == "seconds" \in DOMAIN v

\* line 363: a Timestamp is converted, anything else is replaced by the
\* time of the snapshot
DeliveredCreatedAt(v) ==
    IF IsTimestamp(v) THEN ToISOString(v.seconds) ELSE ToISOString(now)

\* where('recipientId', '==', userId) on one daily collection
ShardQuery(shard) ==
    {doc \in store : doc.coll = shard /\ doc.recipientId = Subscriber}

\* snapshot.docs, in document id order
DocsInOrder(docs) ==
    LET ids == SelectSeq([i \in 1..(BacklogSize + MaxDocs) |-> i],
                         LAMBDA i : \E doc \in docs : doc.id = i)
    IN [k \in 1..Len(ids) |-> CHOOSE doc \in docs : doc.id = ids[k]]

\* snapshot.docs.map(...): id, the data, createdAt replaced
SnapshotNotifications(docs) ==
    LET ordered == DocsInOrder(docs)
    IN [k \in 1..Len(ordered) |->
           [id |-> ordered[k].id, recipientId |-> ordered[k].recipientId,
            read |-> ordered[k].read,
            createdAt |-> DeliveredCreatedAt(ordered[k].createdAt)]]

\* listenToNotifications: one listener per day, today and the 29 days before
ListenToNotifications ==
    /\ lShards = {}
    /\ lShards' = {DailyNameOfTime(now - i * TicksPerDay) :
                      i \in 0..(ShardDays - 1)}
    /\ UNCHANGED <<now, store, nextId, cPc, cRecipient, cCollection, lDead,
                   lSeen, dailyNotifications, delivered, lastMarked,
                   markResult>>
    /\ NotifFrame

\* a shard's listener delivers its first snapshot or a changed one
ShardSnapshot(shard) ==
    /\ shard \in lShards \ lDead
    /\ lSeen[shard] # ShardQuery(shard)
    /\ lSeen' = [lSeen EXCEPT ![shard] = ShardQuery(shard)]
    /\ dailyNotifications' =
           MapSet(dailyNotifications, shard,
                  SnapshotNotifications(ShardQuery(shard)))
    /\ delivered' = ProcessAndCallback(dailyNotifications')
    /\ UNCHANGED <<now, store, nextId, cPc, cRecipient, cCollection, lShards,
                   lDead, lastMarked, markResult>>
    /\ NotifFrame

\* a shard's listener reports an error and ends
ShardError(shard) ==
    /\ shard \in lShards \ lDead
    /\ lDead' = lDead \cup {shard}
    /\ lSeen' = [lSeen EXCEPT ![shard] = NoSnapshot]
    /\ IF MapHas(dailyNotifications, shard)
       THEN /\ dailyNotifications' = MapDelete(dailyNotifications, shard)
            /\ delivered' = ProcessAndCallback(dailyNotifications')
       ELSE UNCHANGED <<dailyNotifications, delivered>>
    /\ UNCHANGED <<now, store, nextId, cPc, cRecipient, cCollection, lShards,
                   lastMarked, markResult>>
    /\ NotifFrame

\* the documents markNotificationsAsRead addresses: collection and id
MarkTargets(toMark) ==
    {<<getDailyCollectionName(toMark[i].createdAt), toMark[i].id>> :
        i \in 1..Len(toMark)}

\* markNotificationsAsRead: one write batch of update(read: true); the
\* batch is rejected as a whole when an addressed document does not exist
MarkNotificationsAsRead(toMark) ==
    LET targets == MarkTargets(toMark)
        hit(doc) == <<doc.coll, doc.id>> \in targets
    IN
    /\ toMark # <<>>
    /\ lastMarked' = {toMark[i].id : i \in 1..Len(toMark)}
    /\ IF \A tg \in targets : \E doc \in store : <<doc.coll, doc.id>> = tg
       THEN /\ store' = {IF hit(doc) THEN [doc EXCEPT !.read = TRUE] ELSE doc :
                            doc \in store}
            /\ markResult' = "ok"
       ELSE /\ UNCHANGED store
            /\ markResult' = "failed"
    /\ UNCHANGED <<now, nextId, cPc, cRecipient, cCollection, lShards, lDead,
                   lSeen, dailyNotifications, delivered>>
    /\ NotifFrame

InitNotif ==
    /\ now = StartTick
    /\ store \in {{}, Backlog}
    /\ nextId = BacklogSize + 1
    /\ cPc = "idle"
    /\ cRecipient = Subscriber
    /\ cCollection = DailyNameOfTime(StartTick)
    /\ lShards = {}
    /\ lDead = {}
    /\ lSeen = [sh \in ModelShards |-> NoSnapshot]
    /\ dailyNotifications = <<>>
    /\ delivered = <<>>
    /\ lastMarked = {}
    /\ markResult = "none"

NextNotif ==
    \/ Tick
    \/ \E r, a \in NotifUsers : CreateNotification(r, a)
    \/ CreateNotificationAdd
    \/ ListenToNotifications
    \/ \E sh \in ModelShards : ShardSnapshot(sh)
    \/ \E sh \in ModelShards : ShardError(sh)
    \/ MarkNotificationsAsRead(delivered)

\* ------------------------------------------------------------------------
\* createPost and uploadMediaToCloudinary (firebaseService.ts 68-91, 568-619)
\* ------------------------------------------------------------------------
MaxPostCalls == 2
None == "none"
FileTypes == {"image", "video", "audio", "other"}
NoUpload == [url |-> None, type |-> None]
NoMediaFields == [imageUrl |-> None, videoUrl |-> None, audioUrl |-> None]
NoReturns == [mediaFile |-> NoUpload, generatedImage |-> NoUpload,
              audioBlob |-> NoUpload]
NoMedia == [mediaFile |-> None, generatedImageBase64 |-> FALSE,
            audioBlobUrl |-> FALSE]

CreateFrame ==
    UNCHANGED <<reactVars, friendVars, groupVars, postVars, notifVars,
                callVars, roomVars, chatVars, userVars, pollVars, msgVars>>

\* lines 73-76: the resource type of the upload URL
ResourceType(fileType) ==
    IF fileType = "video" THEN "video"
    ELSE IF fileType = "image" THEN "image"
    ELSE IF fileType = "audio" THEN "video"
    ELSE "auto"

\* data.resource_type of the response: the requested type, any for 'auto'
ReturnedTypes(fileType) ==
    IF ResourceType(fileType) = "auto" THEN {"image", "video", "raw"}
    ELSE {ResourceType(fileType)}

\* lines 83-87: a non-OK response throws
UploadThrowsNever(responseOk) == FALSE
UploadThrows(responseOk) == ~responseOk

\* data.secure_url: one URL per uploaded file name
SecureUrl(call, name) == <<call, name>>

\* createPost is called: postToSave is built without media fields
CreatePost(media) ==
    /\ cpPc = "idle"
    /\ cpCalls < MaxPostCalls
    /\ cpCalls' = cpCalls + 1
    /\ cpMedia' = media
    /\ cpPost' = NoMediaFields
    /\ cpReturned' = NoReturns
    /\ cpFailed' = FALSE
    /\ cpResult' = None
    /\ cpPc' = "mediaFile"
    /\ UNCHANGED posts
    /\ CreateFrame

\* the call ends with the helper's error: nothing was added
CreatePostThrows ==
    /\ cpPc' = "idle"
    /\ cpResult' = "upload_failed"
    /\ UNCHANGED <<posts, cpMedia, cpPost, cpReturned, cpCalls>>
    /\ CreateFrame

\* lines 597-604: the media file
UploadMediaFile(responseOk, type) ==
    /\ cpPc = "mediaFile"
    /\ IF cpMedia.mediaFile = None
       THEN /\ cpPc' = "generatedImage"
            /\ UNCHANGED <<posts, cpMedia, cpPost, cpReturned, cpFailed,
                           cpResult, cpCalls>>
            /\ CreateFrame
       ELSE /\ type \in ReturnedTypes(cpMedia.mediaFile)
            /\ cpFailed' = (cpFailed \/ ~responseOk)
            /\ IF UploadThrows(responseOk)
               THEN CreatePostThrows
               ELSE LET url == SecureUrl(cpCalls, "post") IN
                    /\ cpReturned' = [cpReturned EXCEPT !.mediaFile =
                                         [url |-> url, type |-> type]]
                    /\ cpPost' = IF type = "video"
                                 THEN [cpPost EXCEPT !.videoUrl = url]
                                 ELSE [cpPost EXCEPT !.imageUrl = url]
                    /\ cpPc' = "generatedImage"
                    /\ UNCHANGED <<posts, cpMedia, cpResult, cpCalls>>
                    /\ CreateFrame

\* lines 606-610: the generated image, a JPEG blob
UploadGeneratedImage(responseOk) ==
    /\ cpPc = "generatedImage"
    /\ IF ~cpMedia.generatedImageBase64
       THEN /\ cpPc' = "audioBlob"
            /\ UNCHANGED <<posts, cpMedia, cpPost, cpReturned, cpFailed,
                           cpResult, cpCalls>>
            /\ CreateFrame
       ELSE /\ cpFailed' = (cpFailed \/ ~responseOk)
            /\ IF UploadThrows(responseOk)
               THEN CreatePostThrows
               ELSE LET url == SecureUrl(cpCalls, "post_ai") IN
                    /\ cpReturned' = [cpReturned EXCEPT !.generatedImage =
                                         [url |-> url, type |-> "image"]]
                    /\ cpPost' = [cpPost EXCEPT !.imageUrl = url]
                    /\ cpPc' = "audioBlob"
                    /\ UNCHANGED <<posts, cpMedia, cpResult, cpCalls>>
                    /\ CreateFrame

\* lines 612-616: the audio blob, uploaded with resource type 'video'
UploadAudioBlob(responseOk) ==
    /\ cpPc = "audioBlob"
    /\ IF ~cpMedia.audioBlobUrl
       THEN /\ cpPc' = "addDoc"
            /\ UNCHANGED <<posts, cpMedia, cpPost, cpReturned, cpFailed,
                           cpResult, cpCalls>>
            /\ CreateFrame
       ELSE /\ cpFailed' = (cpFailed \/ ~responseOk)
            /\ IF UploadThrows(responseOk)
               THEN CreatePostThrows
               ELSE LET url == SecureUrl(cpCalls, "post_audio") IN
                    /\ cpReturned' = [cpReturned EXCEPT !.audioBlob =
                                         [url |-> url,
                                          type |-> ResourceType("audio")]]
                    /\ cpPost' = [cpPost EXCEPT !.audioUrl = url]
                    /\ cpPc' = "addDoc"
                    /\ UNCHANGED <<posts, cpMedia, cpResult, cpCalls>>
                    /\ CreateFrame

\* line 618: addDoc(collection(db, 'posts'), postToSave)
CreatePostAddDoc ==
    /\ cpPc = "addDoc"
    /\ posts' = Append(posts, cpPost)
    /\ cpResult' = "ok"
    /\ cpPc' = "idle"
    /\ UNCHANGED <<cpMedia, cpPost, cpReturned, cpFailed, cpCalls>>
    /\ CreateFrame

InitCreate ==
    /\ posts = <<>>
    /\ cpPc = "idle"
    /\ cpMedia = NoMedia
    /\ cpPost = NoMediaFields
    /\ cpReturned = NoReturns
    /\ cpFailed = FALSE
    /\ cpResult = None
    /\ cpCalls = 0

NextCreate ==
    \/ \E f \in FileTypes \cup {None}, g, a \in BOOLEAN :
           CreatePost([mediaFile |-> f, generatedImageBase64 |-> g,
                       audioBlobUrl |-> a])
    \/ \E ok \in BOOLEAN, t \in {"image", "video", "raw"} :
           UploadMediaFile(ok, t)
    \/ \E ok \in BOOLEAN : UploadGeneratedImage(ok)
    \/ \E ok \in BOOLEAN : UploadAudioBlob(ok)
    \/ CreatePostAddDoc

\* ------------------------------------------------------------------------
\* Calls: CallScreen (part_003 56-131) and updateCallStatus
\* (firebaseService.ts 1391-1438)
\* ------------------------------------------------------------------------
Parties == {"caller", "callee"}
MaxStatusCalls == 2
StatusCallSlots == 1..MaxStatusCalls

CallFrame ==
    UNCHANGED <<reactVars, friendVars, groupVars, postVars, notifVars,
                createVars, roomVars, chatVars, userVars, pollVars, msgVars>>

Other(p) == IF p = "caller" THEN "callee" ELSE "caller"

\* ['ended', 'rejected', 'missed', 'declined'].includes(status)
IsTerminal(status) == status \in {"ended", "rejected", "missed", "declined"}

\* part_003 line 65: the statuses after which the screen goes back
ClosesScreen(status) == status \in {"ended", "declined", "missed"}

\* liveCall?.status || null, for the snapshot of the stored document
LiveStatus(stored) == IF stored = Absent THEN "null" ELSE stored

\* listenToCall's callback in CallScreen: the ref follows the document, a
\* finished or deleted call sets the timer that leaves the screen
CallSnapshot(p) ==
    /\ mounted[p]
    /\ callStatusRef[p] # LiveStatus(callStatus)
    /\ callStatusRef' = [callStatusRef EXCEPT ![p] = LiveStatus(callStatus)]
    /\ goBackTimer' = [goBackTimer EXCEPT ![p] =
                          @ \/ callStatus = Absent \/ ClosesScreen(callStatus)]
    /\ UNCHANGED <<callStatus, mounted, timeoutFired, userLeftSeen, ucCalls,
                   historyMessages, callChatLast, cleanupTimers>>
    /\ CallFrame

\* the 1.5 s timer: onGoBack unmounts the screen, the effects' cleanups
\* unsubscribe the listener and leave the RTC channel
GoBack(p) ==
    /\ mounted[p]
    /\ goBackTimer[p]
    /\ mounted' = [mounted EXCEPT ![p] = FALSE]
    /\ goBackTimer' = [goBackTimer EXCEPT ![p] = FALSE]
    /\ UNCHANGED <<callStatus, callStatusRef, timeoutFired, userLeftSeen,
                   ucCalls, historyMessages, callChatLast, cleanupTimers>>
    /\ CallFrame

\* updateCallStatus is called: nothing has been read or written yet
NewStatusCall(status) == [status |-> status, pc |-> "get", before |-> "none"]

\* the caller's ringing timeout (part_003 94-104): the timer exists while the
\* caller's screen shows 'ringing', and checks callStatusRef when it fires
RingingTimeout ==
    /\ mounted["caller"]
    /\ ~timeoutFired
    /\ callStatusRef["caller"] = "ringing"
    /\ Len(ucCalls) < MaxStatusCalls
    /\ timeoutFired' = TRUE
    /\ ucCalls' = Append(ucCalls, NewStatusCall("missed"))
    /\ UNCHANGED <<callStatus, callStatusRef, mounted, goBackTimer,
                   userLeftSeen, historyMessages, callChatLast, cleanupTimers>>
    /\ CallFrame

\* handleHangUp (part_003 106-112)
HangUpStatus(p) ==
    IF callStatusRef[p] = "ringing" /\ p # "caller" THEN "declined"
    ELSE "ended"

HandleHangUp(p) ==
    /\ mounted[p]
    /\ Len(ucCalls) < MaxStatusCalls
    /\ ucCalls' = Append(ucCalls, NewStatusCall(HangUpStatus(p)))
    /\ UNCHANGED <<callStatus, callStatusRef, mounted, goBackTimer,
                   timeoutFired, userLeftSeen, historyMessages, callChatLast,
                   cleanupTimers>>
    /\ CallFrame

\* the RTC 'user-left' handler (part_003 128-131), run when the other party
\* has left the channel
UserLeft(p) ==
    /\ mounted[p]
    /\ ~mounted[Other(p)]
    /\ ~userLeftSeen[p]
    /\ Len(ucCalls) < MaxStatusCalls
    /\ userLeftSeen' = [userLeftSeen EXCEPT ![p] = TRUE]
    /\ ucCalls' = Append(ucCalls, NewStatusCall("ended"))
    /\ UNCHANGED <<callStatus, callStatusRef, mounted, goBackTimer,
                   timeoutFired, historyMessages, callChatLast, cleanupTimers>>
    /\ CallFrame

\* the callee answers: updateCallStatus(callId, 'active'), the status that
\* updateCallStatus line 1405 expects of a call that was picked up
AnswerCall ==
    /\ mounted["callee"]
    /\ callStatusRef["callee"] = "ringing"
    /\ Len(ucCalls) < MaxStatusCalls
    /\ ucCalls' = Append(ucCalls, NewStatusCall("active"))
    /\ UNCHANGED <<callStatus, callStatusRef, mounted, goBackTimer,
                   timeoutFired, userLeftSeen, historyMessages, callChatLast,
                   cleanupTimers>>
    /\ CallFrame

\* line 1395: getDoc(callRef); data() of a missing document is undefined
UpdateCallStatusGet(i) ==
    /\ i <= Len(ucCalls)
    /\ ucCalls[i].pc = "get"
    /\ ucCalls' = [ucCalls EXCEPT ![i].pc = "update", ![i].before = callStatus]
    /\ UNCHANGED <<callStatus, callStatusRef, mounted, goBackTimer,
                   timeoutFired, userLeftSeen, historyMessages, callChatLast,
                   cleanupTimers>>
    /\ CallFrame

\* line 1401: updateDoc(callRef, { status, endedAt }) whatever the stored
\* status is; updateDoc of a missing document rejects and ends the call
UpdateCallStatusUpdate(i) ==
    /\ i <= Len(ucCalls)
    /\ ucCalls[i].pc = "update"
    /\ IF callStatus = Absent
       THEN /\ ucCalls' = [ucCalls EXCEPT ![i].pc = "done"]
            /\ UNCHANGED callStatus
       ELSE /\ callStatus' = ucCalls[i].status
            /\ ucCalls' = [ucCalls EXCEPT ![i].pc =
                   IF IsTerminal(ucCalls[i].status)
                      /\ ucCalls[i].before # Absent
                   THEN "add" ELSE "done"]
    /\ UNCHANGED <<callStatusRef, mounted, goBackTimer, timeoutFired,
                   userLeftSeen, historyMessages, callChatLast, cleanupTimers>>
    /\ CallFrame

\* line 1423: addDoc(messagesRef, historyMessage)
UpdateCallStatusAddHistory(i) ==
    /\ i <= Len(ucCalls)
    /\ ucCalls[i].pc = "add"
    /\ historyMessages' = historyMessages + 1
    /\ ucCalls' = [ucCalls EXCEPT ![i].pc = "chat"]
    /\ UNCHANGED <<callStatus, callStatusRef, mounted, goBackTimer,
                   timeoutFired, userLeftSeen, callChatLast, cleanupTimers>>
    /\ CallFrame

\* lines 1426-1433: updateDoc(chatRef, { lastMessage }) and the timer that
\* deletes the call document
UpdateCallStatusChat(i) ==
    /\ i <= Len(ucCalls)
    /\ ucCalls[i].pc = "chat"
    /\ callChatLast' = "call_history"
    /\ cleanupTimers' = cleanupTimers + 1
    /\ ucCalls' = [ucCalls EXCEPT ![i].pc = "done"]
    /\ UNCHANGED <<callStatus, callStatusRef, mounted, goBackTimer,
                   timeoutFired, userLeftSeen, historyMessages>>
    /\ CallFrame

\* line 1432: deleteDoc(callRef), 5 s later
CleanUpCall ==
    /\ cleanupTimers > 0
    /\ cleanupTimers' = cleanupTimers - 1
    /\ callStatus' = Absent
    /\ UNCHANGED <<callStatusRef, mounted, goBackTimer, timeoutFired,
                   userLeftSeen, ucCalls, historyMessages, callChatLast>>
    /\ CallFrame

\* createCall has stored the call as 'ringing', both screens have mounted
InitCall ==
    /\ callStatus = "ringing"
    /\ callStatusRef = [p \in Parties |-> "null"]
    /\ mounted = [p \in Parties |-> TRUE]
    /\ goBackTimer = [p \in Parties |-> FALSE]
    /\ timeoutFired = FALSE
    /\ userLeftSeen = [p \in Parties |-> FALSE]
    /\ ucCalls = <<>>
    /\ historyMessages = 0
    /\ callChatLast = "none"
    /\ cleanupTimers = 0

NextCall ==
    \/ \E p \in Parties : CallSnapshot(p)
    \/ \E p \in Parties : GoBack(p)
    \/ RingingTimeout
    \/ \E p \in Parties : HandleHangUp(p)
    \/ \E p \in Parties : UserLeft(p)
    \/ AnswerCall
    \/ \E i \in StatusCallSlots : UpdateCallStatusGet(i)
    \/ \E i \in StatusCallSlots : UpdateCallStatusUpdate(i)
    \/ \E i \in StatusCallSlots : UpdateCallStatusAddHistory(i)
    \/ \E i \in StatusCallSlots : UpdateCallStatusChat(i)
    \/ CleanUpCall

\* ------------------------------------------------------------------------
\* Live video room: LiveVideoRoomScreen (part_005 146-234),
\* joinLiveVideoRoom, leaveLiveVideoRoom, updateParticipantStateInVideoRoom
\* ------------------------------------------------------------------------
Viewer == "u1"
Guest == "u2"
MaxOtherWrites == 2
RoomOps == {"join", "leave", "state"}

RoomFrame ==
    UNCHANGED <<reactVars, friendVars, groupVars, postVars, notifVars,
                createVars, callVars, chatVars, userVars, pollVars, msgVars>>

\* participants.some(p => p.id === userId)
IsParticipant(list, userId) == \E i \in 1..Len(list) : list[i] = userId

\* participants.filter(p => p.id !== userId)
WithoutParticipant(list, userId) == SelectSeq(list, LAMBDA p : p # userId)

\* a committed write of the room document invalidates the reads of the
\* transactions that have read it and not yet committed
RoomReaders == {op \in RoomOps :
                   \/ op = "join" /\ jPc = "commit"
                   \/ op = "leave" /\ lPc = "commit"
                   \/ op = "state" /\ sPc = "commit"}

\* the effect runs on mount: joinLiveVideoRoom is called (part_005 215)
MountScreen ==
    /\ screen = "closed"
    /\ screen' = "mounted"
    /\ jPc' = "profile"
    /\ UNCHANGED <<participants, lPc, sPc, roomRead, roomStale, otherWrites>>
    /\ RoomFrame

\* the effect's cleanup: isMounted = false, leaveLiveVideoRoom is called
UnmountScreen ==
    /\ screen = "mounted"
    /\ screen' = "unmounted"
    /\ lPc' = "get"
    /\ UNCHANGED <<participants, jPc, sPc, roomRead, roomStale, otherWrites>>
    /\ RoomFrame

\* joinLiveVideoRoom 1605-1606: the profile of the user is fetched first
JoinGetUserProfile ==
    /\ jPc = "profile"
    /\ jPc' = "get"
    /\ UNCHANGED <<participants, screen, lPc, sPc, roomRead, roomStale,
                   otherWrites>>
    /\ RoomFrame

\* joinLiveVideoRoom 1610: transaction.get(roomRef)
JoinTxnGet ==
    /\ jPc = "get"
    /\ jPc' = "commit"
    /\ roomRead' = [roomRead EXCEPT !["join"] = participants]
    /\ roomStale' = roomStale \ {"join"}
    /\ UNCHANGED <<participants, screen, lPc, sPc, otherWrites>>
    /\ RoomFrame

\* lines 1613-1623: the list with the user appended, unless already listed
JoinedParticipants(list, userId) ==
    IF IsParticipant(list, userId) THEN list ELSE Append(list, userId)

\* .then(() => { if (isMounted) setupAgora(); })
AfterJoin == IF screen = "mounted" THEN "setup" ELSE "idle"

\* the join transaction commits; a body that found the user listed wrote
\* nothing
JoinTxnCommit ==
    /\ jPc = "commit"
    /\ ~TxnConflict(roomStale, "join")
    /\ participants' = JoinedParticipants(roomRead["join"], Viewer)
    /\ roomStale' = IF IsParticipant(roomRead["join"], Viewer) THEN roomStale
                    ELSE roomStale \cup (RoomReaders \ {"join"})
    /\ jPc' = "done"
    /\ sPc' = AfterJoin
    /\ roomRead' = [roomRead EXCEPT !["join"] = <<>>]
    /\ UNCHANGED <<screen, lPc, otherWrites>>
    /\ RoomFrame

\* leaveLiveVideoRoom 1640: transaction.get(roomRef)
LeaveTxnGet ==
    /\ lPc = "get"
    /\ lPc' = "commit"
    /\ roomRead' = [roomRead EXCEPT !["leave"] = participants]
    /\ roomStale' = roomStale \ {"leave"}
    /\ UNCHANGED <<participants, screen, jPc, sPc, otherWrites>>
    /\ RoomFrame

\* lines 1642-1644 and the commit: the filtered list is always written
LeaveTxnCommit ==
    /\ lPc = "commit"
    /\ ~TxnConflict(roomStale, "leave")
    /\ participants' = WithoutParticipant(roomRead["leave"], Viewer)
    /\ roomStale' = roomStale \cup (RoomReaders \ {"leave"})
    /\ lPc' = "done"
    /\ roomRead' = [roomRead EXCEPT !["leave"] = <<>>]
    /\ UNCHANGED <<screen, jPc, sPc, otherWrites>>
    /\ RoomFrame

\* setupAgora up to its last line (part_005 169-211): RTC only
SetupAgora ==
    /\ sPc = "setup"
    /\ sPc' = "get"
    /\ UNCHANGED <<participants, screen, jPc, lPc, roomRead, roomStale,
                   otherWrites>>
    /\ RoomFrame

\* updateParticipantStateInVideoRoom 1721: transaction.get(roomRef)
StateTxnGet ==
    /\ sPc = "get"
    /\ sPc' = "commit"
    /\ roomRead' = [roomRead EXCEPT !["state"] = participants]
    /\ roomStale' = roomStale \ {"state"}
    /\ UNCHANGED <<participants, screen, jPc, lPc, otherWrites>>
    /\ RoomFrame

\* lines 1726-1735 and the commit: the list is written back, with the
\* user's entry changed, only when the user is listed
StateTxnCommit ==
    /\ sPc = "commit"
    /\ ~TxnConflict(roomStale, "state")
    /\ participants' = roomRead["state"]
    /\ roomStale' = IF IsParticipant(roomRead["state"], Viewer)
                    THEN roomStale \cup (RoomReaders \ {"state"})
                    ELSE roomStale
    /\ sPc' = "done"
    /\ roomRead' = [roomRead EXCEPT !["state"] = <<>>]
    /\ UNCHANGED <<screen, jPc, lPc, otherWrites>>
    /\ RoomFrame

\* a rejected commit: runTransaction runs the body again
RoomTxnRetry(op) ==
    /\ op \in RoomReaders
    /\ TxnConflict(roomStale, op)
    /\ jPc' = IF op = "join" THEN "get" ELSE jPc
    /\ lPc' = IF op = "leave" THEN "get" ELSE lPc
    /\ sPc' = IF op = "state" THEN "get" ELSE sPc
    /\ roomRead' = [roomRead EXCEPT ![op] = <<>>]
    /\ roomStale' = roomStale \ {op}
    /\ UNCHANGED <<participants, screen, otherWrites>>
    /\ RoomFrame

\* another client's joinLiveVideoRoom or leaveLiveVideoRoom commits
GuestJoins ==
    /\ otherWrites < MaxOtherWrites
    /\ ~IsParticipant(participants, Guest)
    /\ participants' = Append(participants, Guest)
    /\ roomStale' = roomStale \cup RoomReaders
    /\ otherWrites' = otherWrites + 1
    /\ UNCHANGED <<screen, jPc, lPc, sPc, roomRead>>
    /\ RoomFrame

GuestLeaves ==
    /\ otherWrites < MaxOtherWrites
    /\ participants' = WithoutParticipant(participants, Guest)
    /\ roomStale' = roomStale \cup RoomReaders
    /\ otherWrites' = otherWrites + 1
    /\ UNCHANGED <<screen, jPc, lPc, sPc, roomRead>>
    /\ RoomFrame

\* a live room with the guest in it, the viewer's screen not yet open
InitRoom ==
    /\ participants = <<Guest>>
    /\ screen = "closed"
    /\ jPc = "idle"
    /\ lPc = "idle"
    /\ sPc = "idle"
    /\ roomRead = [op \in RoomOps |-> <<>>]
    /\ roomStale = {}
    /\ otherWrites = 0

NextRoom ==
    \/ MountScreen
    \/ UnmountScreen
    \/ JoinGetUserProfile
    \/ JoinTxnGet
    \/ JoinTxnCommit
    \/ LeaveTxnGet
    \/ LeaveTxnCommit
    \/ SetupAgora
    \/ StateTxnGet
    \/ StateTxnCommit
    \/ \E op \in RoomOps : RoomTxnRetry(op)
    \/ GuestJoins
    \/ GuestLeaves

\* ------------------------------------------------------------------------
\* Chats: listenToConversations, sendMessage, markMessagesAsRead,
\* unsendMessage (firebaseService.ts 936-1059)
\* ------------------------------------------------------------------------
ChatUsers == {"u1", "u2"}
MaxMessages == 2
MessageIds == 1..MaxMessages
\* a count that is not in the unreadCount map
Undefined == -1
\* the lastMessage of a chat that has none
NoMessage == [id |-> 0, senderId |-> None, text |-> FALSE, isDeleted |-> FALSE]
\* a chat listenToConversations skips
NoConversation == [lastMessage |-> NoMessage, unreadCount |-> 0]

ChatFrame ==
    UNCHANGED <<reactVars, friendVars, groupVars, postVars, notifVars,
                createVars, callVars, roomVars, userVars, pollVars, msgVars>>

\* data.participants.find(pId => pId !== userId)
Peer(userId) == IF userId = "u1" THEN "u2" ELSE "u1"

\* data.unreadCount?.[userId] || 0
UnreadCountOf(map, userId) ==
    IF map[userId] = Undefined THEN 0 ELSE map[userId]

\* the Conversation listenToConversations builds from the chat document;
\* a chat without lastMessage is skipped
ConversationOf(userId) ==
    IF lastMessage = NoMessage THEN NoConversation
    ELSE [lastMessage |-> lastMessage,
          unreadCount |-> UnreadCountOf(unreadCount, userId)]

\* the onSnapshot callback of listenToConversations(userId, callback)
ListenToConversations(userId) ==
    /\ conversations[userId] # ConversationOf(userId)
    /\ conversations' = [conversations EXCEPT ![userId] = ConversationOf(userId)]
    /\ UNCHANGED <<chatMessages, lastMessage, unreadCount, unreadDotted,
                   smPc, smId, umPc, umMessage, sentSince>>
    /\ ChatFrame

\* sendMessage up to line 1011: addDoc of the message (a text message)
SendMessage(sender) ==
    /\ smPc[sender] = "idle"
    /\ Len(chatMessages) < MaxMessages
    /\ chatMessages' = Append(chatMessages,
           [senderId |-> sender, isDeleted |-> FALSE, text |-> TRUE])
    /\ smId' = [smId EXCEPT ![sender] = Len(chatMessages) + 1]
    /\ smPc' = [smPc EXCEPT ![sender] = "set"]
    /\ UNCHANGED <<lastMessage, unreadCount, unreadDotted, umPc, umMessage,
                   sentSince, conversations>>
    /\ ChatFrame

\* setDoc(..., { merge: true }) of a map field: the leaves named in the new
\* map are written, the other leaves of the stored map stay
MergeLastMessage(stored, id, sender) ==
    [id |-> id, senderId |-> sender, text |-> TRUE,
     isDeleted |-> stored.isDeleted]

\* the key `unreadCount.${recipient.id}` of a setDoc is a field name, not a
\* path: increment(1) applies to the top-level field of that name
SendIncrement(dotted, recipient) == [dotted EXCEPT ![recipient] = @ + 1]

\* sendMessage lines 1013-1025: setDoc(chatRef, {...}, { merge: true })
SendMessageSetChat(sender) ==
    /\ smPc[sender] = "set"
    /\ lastMessage' = MergeLastMessage(lastMessage, smId[sender], sender)
    /\ unreadDotted' = SendIncrement(unreadDotted, Peer(sender))
    /\ sentSince' = [sentSince EXCEPT ![Peer(sender)] = @ + 1]
    /\ smPc' = [smPc EXCEPT ![sender] = "idle"]
    /\ smId' = [smId EXCEPT ![sender] = 0]
    /\ UNCHANGED <<chatMessages, unreadCount, umPc, umMessage, conversations>>
    /\ ChatFrame

\* markMessagesAsRead: setDoc(chatRef, { unreadCount: { [userId]: 0 } },
\* { merge: true })
MarkMessagesAsRead(userId) ==
    /\ unreadCount' = [unreadCount EXCEPT ![userId] = 0]
    /\ sentSince' = [sentSince EXCEPT ![userId] = 0]
    /\ unreadCount' # unreadCount \/ sentSince' # sentSince
    /\ UNCHANGED <<chatMessages, lastMessage, unreadDotted, smPc, smId, umPc,
                   umMessage, conversations>>
    /\ ChatFrame

\* unsendMessage is called
UnsendMessage(userId, messageId) ==
    /\ umPc[userId] = "idle"
    /\ umPc' = [umPc EXCEPT ![userId] = "get_message"]
    /\ umMessage' = [umMessage EXCEPT ![userId] = messageId]
    /\ UNCHANGED <<chatMessages, lastMessage, unreadCount, unreadDotted,
                   smPc, smId, sentSince, conversations>>
    /\ ChatFrame

\* messageDoc.exists() && messageDoc.data()?.senderId === userId
MaySenderUnsend(userId, messageId) ==
    /\ messageId <= Len(chatMessages)
    /\ chatMessages[messageId].senderId = userId

\* lines 1038-1040: getDoc(messageRef) and the test
UnsendGetMessage(userId) ==
    /\ umPc[userId] = "get_message"
    /\ IF MaySenderUnsend(userId, umMessage[userId])
       THEN /\ umPc' = [umPc EXCEPT ![userId] = "update_message"]
            /\ UNCHANGED umMessage
       ELSE /\ umPc' = [umPc EXCEPT ![userId] = "idle"]
            /\ umMessage' = [umMessage EXCEPT ![userId] = 0]
    /\ UNCHANGED <<chatMessages, lastMessage, unreadCount, unreadDotted,
                   smPc, smId, sentSince, conversations>>
    /\ ChatFrame

\* lines 1041-1047: updateDoc(messageRef, { isDeleted: true, text: deleted })
UnsendUpdateMessage(userId) ==
    /\ umPc[userId] = "update_message"
    /\ chatMessages' = [chatMessages EXCEPT ![umMessage[userId]] =
           [@ EXCEPT !.isDeleted = TRUE, !.text = FALSE]]
    /\ umPc' = [umPc EXCEPT ![userId] = "get_chat"]
    /\ UNCHANGED <<lastMessage, unreadCount, unreadDotted, smPc, smId,
                   umMessage, sentSince, conversations>>
    /\ ChatFrame

\* lines 1049-1050: getDoc(chatRef) and lastMessage.id === messageId
UnsendGetChat(userId) ==
    /\ umPc[userId] = "get_chat"
    /\ IF lastMessage # NoMessage /\ lastMessage.id = umMessage[userId]
       THEN /\ umPc' = [umPc EXCEPT ![userId] = "update_chat"]
            /\ UNCHANGED umMessage
       ELSE /\ umPc' = [umPc EXCEPT ![userId] = "idle"]
            /\ umMessage' = [umMessage EXCEPT ![userId] = 0]
    /\ UNCHANGED <<chatMessages, lastMessage, unreadCount, unreadDotted,
                   smPc, smId, sentSince, conversations>>
    /\ ChatFrame

\* lines 1051-1056: updateDoc(chatRef, { 'lastMessage.isDeleted': true,
\* 'lastMessage.text': deleted }) on the lastMessage stored at that moment
UnsendUpdateChat(userId) ==
    /\ umPc[userId] = "update_chat"
    /\ lastMessage' = [lastMessage EXCEPT !.isDeleted = TRUE, !.text = FALSE]
    /\ umPc' = [umPc EXCEPT ![userId] = "idle"]
    /\ umMessage' = [umMessage EXCEPT ![userId] = 0]
    /\ UNCHANGED <<chatMessages, unreadCount, unreadDotted, smPc, smId,
                   sentSince, conversations>>
    /\ ChatFrame

InitChat ==
    /\ chatMessages = <<>>
    /\ lastMessage = NoMessage
    /\ unreadCount = [u \in ChatUsers |-> Undefined]
    /\ unreadDotted = [u \in ChatUsers |-> 0]
    /\ smPc = [u \in ChatUsers |-> "idle"]
    /\ smId = [u \in ChatUsers |-> 0]
    /\ umPc = [u \in ChatUsers |-> "idle"]
    /\ umMessage = [u \in ChatUsers |-> 0]
    /\ sentSince = [u \in ChatUsers |-> 0]
    /\ conversations = [u \in ChatUsers |-> NoConversation]

NextChat ==
    \/ \E u \in ChatUsers : ListenToConversations(u)
    \/ \E u \in ChatUsers : SendMessage(u)
    \/ \E u \in ChatUsers : SendMessageSetChat(u)
    \/ \E u \in ChatUsers : MarkMessagesAsRead(u)
    \/ \E u \in ChatUsers, m \in MessageIds : UnsendMessage(u, m)
    \/ \E u \in ChatUsers : UnsendGetMessage(u)
    \/ \E u \in ChatUsers : UnsendUpdateMessage(u)
    \/ \E u \in ChatUsers : UnsendGetChat(u)
    \/ \E u \in ChatUsers : UnsendUpdateChat(u)

\* ------------------------------------------------------------------------
\* Accounts: signUpWithEmail, signInWithEmail, isUsernameTaken
\* (firebaseService.ts 152-217, 275-279)
\* ------------------------------------------------------------------------
Emails == {"amy@x.io", "bob@x.io"}
UsernameInputs == {"amy", "bob", "Bob"}
MaxAccounts == 2
Uids == 1..MaxAccounts

UserFrame ==
    UNCHANGED <<reactVars, friendVars, groupVars, postVars, notifVars,
                createVars, callVars, roomVars, chatVars, pollVars, msgVars>>

\* String.prototype.toLowerCase on the usernames of the model
ToLowerCase(name) == IF name = "Bob" THEN "bob" ELSE name

LowerNames == {ToLowerCase(n) : n \in UsernameInputs}

\* isUsernameTaken: getDoc(usernames/<lower-cased name>).exists()
UsernameExists(name) == usernames[ToLowerCase(name)] # 0

IsUsernameTaken(c, username) ==
    /\ suPc[c] = "idle"
    /\ suTaken' = [suTaken EXCEPT ![c] =
                      IF UsernameExists(username) THEN "taken" ELSE "free"]
    /\ suTaken' # suTaken
    /\ UNCHANGED <<accounts, profiles, usernames, suPc, suUid, suName,
                   suResult, signedIn>>
    /\ UserFrame

\* createUserWithEmailAndPassword rejects an email that has an account
EmailInUse(email) == \E i \in 1..Len(accounts) : accounts[i] = email

\* signUpWithEmail line 154: the account is created, or the call returns
\* false from the catch block
SignUpWithEmail(c, email, username) ==
    /\ suPc[c] = "idle"
    /\ Len(accounts) < MaxAccounts
    /\ suTaken' = [suTaken EXCEPT ![c] = "unknown"]
    /\ IF EmailInUse(email)
       THEN /\ suResult' = [suResult EXCEPT ![c] = "false"]
            /\ UNCHANGED <<accounts, suPc, suUid, suName>>
       ELSE /\ accounts' = Append(accounts, email)
            /\ suPc' = [suPc EXCEPT ![c] = "set_user"]
            /\ suUid' = [suUid EXCEPT ![c] = Len(accounts) + 1]
            /\ suName' = [suName EXCEPT ![c] = username]
            /\ suResult' = [suResult EXCEPT ![c] = "none"]
    /\ UNCHANGED <<profiles, usernames, signedIn>>
    /\ UserFrame

\* line 180: setDoc(userRef, profile) with username: username.toLowerCase()
SignUpSetUser(c) ==
    /\ suPc[c] = "set_user"
    /\ profiles' = [profiles EXCEPT ![suUid[c]] = ToLowerCase(suName[c])]
    /\ suPc' = [suPc EXCEPT ![c] = "set_username"]
    /\ UNCHANGED <<accounts, usernames, suUid, suName, suTaken, suResult,
                   signedIn>>
    /\ UserFrame

\* line 181: setDoc(usernameRef, { userId: user.uid }) creates or overwrites
SignUpSetUsername(c) ==
    /\ suPc[c] = "set_username"
    /\ usernames' = [usernames EXCEPT ![ToLowerCase(suName[c])] = suUid[c]]
    /\ suPc' = [suPc EXCEPT ![c] = "idle"]
    /\ suResult' = [suResult EXCEPT ![c] = "true"]
    /\ suUid' = [suUid EXCEPT ![c] = 0]
    /\ suName' = [suName EXCEPT ![c] = None]
    /\ UNCHANGED <<accounts, profiles, suTaken, signedIn>>
    /\ UserFrame

\* signInWithEmail with a username: usernames/<name> gives the uid, the
\* profile of that uid gives the email
EmailOfUsername(identifier) ==
    LET uid == usernames[ToLowerCase(identifier)] IN
    IF uid = 0 THEN "invalid"
    ELSE IF profiles[uid] = None THEN "invalid" ELSE accounts[uid]

SignInWithEmail(c, identifier) ==
    /\ suPc[c] = "idle"
    /\ signedIn' = [signedIn EXCEPT ![c] = EmailOfUsername(identifier)]
    /\ signedIn' # signedIn
    /\ UNCHANGED <<accounts, profiles, usernames, suPc, suUid, suName,
                   suTaken, suResult>>
    /\ UserFrame

InitUsers ==
    /\ accounts = <<>>
    /\ profiles = [uid \in Uids |-> None]
    /\ usernames = [n \in LowerNames |-> 0]
    /\ suPc = [c \in Clients |-> "idle"]
    /\ suUid = [c \in Clients |-> 0]
    /\ suName = [c \in Clients |-> None]
    /\ suTaken = [c \in Clients |-> "unknown"]
    /\ suResult = [c \in Clients |-> "none"]
    /\ signedIn = [c \in Clients |-> "invalid"]

NextUsers ==
    \/ \E c \in Clients, n \in UsernameInputs : IsUsernameTaken(c, n)
    \/ \E c \in Clients, e \in Emails, n \in UsernameInputs :
           SignUpWithEmail(c, e, n)
    \/ \E c \in Clients : SignUpSetUser(c)
    \/ \E c \in Clients : SignUpSetUsername(c)
    \/ \E c \in Clients, n \in UsernameInputs : SignInWithEmail(c, n)

\* ------------------------------------------------------------------------
\* voteOnPoll (firebaseService.ts 800-846)
\* ------------------------------------------------------------------------
Voters == {"u1", "u2"}
NumOptions == 2
\* optionIndex arguments: in range, and one below and one above the range
OptionIndexes == (0 - 1)..NumOptions
MaxVoteCalls == 2

PollFrame ==
    UNCHANGED <<reactVars, friendVars, groupVars, postVars, notifVars,
                createVars, callVars, roomVars, chatVars, userVars, msgVars>>

NoOptions == [i \in 1..NumOptions |-> [votes |-> 0, votedBy |-> <<>>]]

\* opt.votedBy.includes(userId)
Includes(list, userId) == \E k \in 1..Len(list) : list[k] = userId

\* postData.poll.options.some(opt => opt.votedBy.includes(userId))
HasVotedNever(options, userId) == FALSE
HasVoted(options, userId) ==
    \E i \in 1..Len(options) : Includes(options[i].votedBy, userId)

\* optionIndex < 0 || optionIndex >= options.length, for a 0-based index
InvalidIndex(options, optionIndex) ==
    optionIndex < 0 \/ optionIndex >= Len(options)

\* lines 825-835: the option at optionIndex gets one more vote and the user
UpdatedOptions(options, optionIndex, userId) ==
    [i \in 1..Len(options) |->
        IF i - 1 = optionIndex
        THEN [votes |-> options[i].votes + 1,
              votedBy |-> Append(options[i].votedBy, userId)]
        ELSE options[i]]

\* voteOnPoll is called: runTransaction starts its first attempt
VoteOnPoll(c, userId, optionIndex) ==
    /\ vPc[c] = "idle"
    /\ vCalls[c] < MaxVoteCalls
    /\ vPc' = [vPc EXCEPT ![c] = "get"]
    /\ vUser' = [vUser EXCEPT ![c] = userId]
    /\ vIndex' = [vIndex EXCEPT ![c] = optionIndex]
    /\ vResult' = [vResult EXCEPT ![c] = "none"]
    /\ vCalls' = [vCalls EXCEPT ![c] = @ + 1]
    /\ vConflicted' = vConflicted \ {c}
    /\ UNCHANGED <<pollOptions, vRead, vStale>>
    /\ PollFrame

\* transaction.get(postRef) and the body: a user who has voted gets the post
\* back and nothing is written, an invalid index throws and the call returns
\* null, otherwise the update is buffered
VoteTxnGet(c) ==
    /\ vPc[c] = "get"
    /\ vStale' = vStale \ {c}
    /\ IF HasVoted(pollOptions, vUser[c])
       THEN /\ vPc' = [vPc EXCEPT ![c] = "idle"]
            /\ vResult' = [vResult EXCEPT ![c] = "post"]
            /\ UNCHANGED vRead
       ELSE IF InvalidIndex(pollOptions, vIndex[c])
       THEN /\ vPc' = [vPc EXCEPT ![c] = "idle"]
            /\ vResult' = [vResult EXCEPT ![c] = "null"]
            /\ UNCHANGED vRead
       ELSE /\ vPc' = [vPc EXCEPT ![c] = "commit"]
            /\ vRead' = [vRead EXCEPT ![c] = pollOptions]
            /\ UNCHANGED vResult
    /\ UNCHANGED <<pollOptions, vUser, vIndex, vCalls, vConflicted>>
    /\ PollFrame

\* the commit: transaction.update(postRef, { poll: updatedPoll })
VoteTxnCommit(c) ==
    /\ vPc[c] = "commit"
    /\ ~TxnConflict(vStale, c)
    /\ pollOptions' = UpdatedOptions(vRead[c], vIndex[c], vUser[c])
    /\ vStale' = {d \in Clients \ {c} : vPc[d] = "commit"}
    /\ vPc' = [vPc EXCEPT ![c] = "idle"]
    /\ vResult' = [vResult EXCEPT ![c] = "updated"]
    /\ vRead' = [vRead EXCEPT ![c] = NoOptions]
    /\ UNCHANGED <<vUser, vIndex, vCalls, vConflicted>>
    /\ PollFrame

\* the commit is rejected, runTransaction runs the body again
VoteTxnRetry(c) ==
    /\ vPc[c] = "commit"
    /\ TxnConflict(vStale, c)
    /\ vPc' = [vPc EXCEPT ![c] = "get"]
    /\ vRead' = [vRead EXCEPT ![c] = NoOptions]
    /\ vStale' = vStale \ {c}
    /\ vConflicted' = vConflicted \cup {c}
    /\ UNCHANGED <<pollOptions, vUser, vIndex, vResult, vCalls>>
    /\ PollFrame

InitPoll ==
    /\ pollOptions = NoOptions
    /\ vPc = [c \in Clients |-> "idle"]
    /\ vUser = [c \in Clients |-> "u1"]
    /\ vIndex = [c \in Clients |-> 0]
    /\ vRead = [c \in Clients |-> NoOptions]
    /\ vResult = [c \in Clients |-> "none"]
    /\ vStale = {}
    /\ vCalls = [c \in Clients |-> 0]
    /\ vConflicted = {}

NextPoll ==
    \/ \E c \in Clients, u \in Voters, i \in OptionIndexes : VoteOnPoll(c, u, i)
    \/ \E c \in Clients : VoteTxnGet(c)
    \/ \E c \in Clients : VoteTxnCommit(c)
    \/ \E c \in Clients : VoteTxnRetry(c)

\* ------------------------------------------------------------------------
\* Message reactions: reactToMessage (firebaseService.ts 1061-1089) and
\* reactToLiveAudioRoomMessage (1469-1504)
\* ------------------------------------------------------------------------
MsgUsers == {"u1", "u2"}
Emojis == {"heart", "thumb"}
MsgKinds == {"chat", "liveAudioRoom"}
MaxMsgCalls == 2

MsgFrame ==
    UNCHANGED <<reactVars, friendVars, groupVars, postVars, notifVars,
                createVars, callVars, roomVars, chatVars, userVars, pollVars>>

\* reactions[key].includes(userId)
HasUser(ids, userId) == \E k \in 1..Len(ids) : ids[k] = userId

\* Object.keys(reactions).find(key => reactions[key].includes(userId))
PreviousReaction(obj, userId) ==
    LET hits == SelectSeq(obj, LAMBDA e : HasUser(e.ids, userId))
    IN IF hits = <<>> THEN None ELSE Head(hits).key

\* reactions[key] = reactions[key].filter(id => id !== userId)
FilterUser(obj, key, userId) ==
    [i \in 1..Len(obj) |->
        IF obj[i].key = key
        THEN [key |-> key,
              ids |-> SelectSeq(obj[i].ids, LAMBDA id : id # userId)]
        ELSE obj[i]]

\* if (!reactions[emoji]) reactions[emoji] = []; reactions[emoji].push(userId)
PushUser(obj, emoji, userId) ==
    IF \E i \in 1..Len(obj) : obj[i].key = emoji
    THEN [i \in 1..Len(obj) |->
             IF obj[i].key = emoji
             THEN [key |-> emoji, ids |-> Append(obj[i].ids, userId)]
             ELSE obj[i]]
    ELSE Append(obj, [key |-> emoji, ids |-> <<userId>>])

\* delete reactions[key] for the keys with an empty list
DeleteEmptyNever(obj) == obj
DeleteEmpty(obj) == SelectSeq(obj, LAMBDA e : e.ids # <<>>)

\* delete reactions[key] if its list is empty, for one key
DeleteIfEmpty(obj, key) ==
    SelectSeq(obj, LAMBDA e : e.key # key \/ e.ids # <<>>)

\* the body of reactToMessage, lines 1067-1086
ReactToMessageBody(obj, userId, emoji) ==
    LET previousReaction == PreviousReaction(obj, userId)
        removed == IF previousReaction # None
                   THEN FilterUser(obj, previousReaction, userId)
                   ELSE obj
        added == IF previousReaction # emoji
                 THEN PushUser(removed, emoji, userId)
                 ELSE removed
    IN DeleteEmpty(added)

\* the body of reactToLiveAudioRoomMessage, lines 1476-1498
ReactToLiveAudioRoomMessageBody(obj, userId, emoji) ==
    LET previousReaction == PreviousReaction(obj, userId)
    IN IF previousReaction = emoji
       THEN DeleteIfEmpty(FilterUser(obj, previousReaction, userId),
                          previousReaction)
       ELSE LET removed ==
                    IF previousReaction # None
                    THEN DeleteIfEmpty(
                             FilterUser(obj, previousReaction, userId),
                             previousReaction)
                    ELSE obj
            IN PushUser(removed, emoji, userId)

ReactionBody(kind, obj, userId, emoji) ==
    IF kind = "chat" THEN ReactToMessageBody(obj, userId, emoji)
    ELSE ReactToLiveAudioRoomMessageBody(obj, userId, emoji)

\* a reaction call starts: runTransaction begins its first attempt
ReactToMessage(c, userId, emoji) ==
    /\ mPc[c] = "idle"
    /\ mCalls[c] < MaxMsgCalls
    /\ mPc' = [mPc EXCEPT ![c] = "get"]
    /\ mUser' = [mUser EXCEPT ![c] = userId]
    /\ mEmoji' = [mEmoji EXCEPT ![c] = emoji]
    /\ mCalls' = [mCalls EXCEPT ![c] = @ + 1]
    /\ mConflicted' = mConflicted \ {c}
    /\ UNCHANGED <<msgKind, msgReactions, mRead, mStale>>
    /\ MsgFrame

\* transaction.get(messageRef)
MsgTxnGet(c) ==
    /\ mPc[c] = "get"
    /\ mRead' = [mRead EXCEPT ![c] = msgReactions]
    /\ mStale' = mStale \ {c}
    /\ mPc' = [mPc EXCEPT ![c] = "commit"]
    /\ UNCHANGED <<msgKind, msgReactions, mUser, mEmoji, mCalls, mConflicted>>
    /\ MsgFrame

\* the commit: transaction.update(messageRef, { reactions })
MsgTxnCommit(c) ==
    /\ mPc[c] = "commit"
    /\ ~TxnConflict(mStale, c)
    /\ msgReactions' = ReactionBody(msgKind, mRead[c], mUser[c], mEmoji[c])
    /\ mStale' = {d \in Clients \ {c} : mPc[d] = "commit"}
    /\ mPc' = [mPc EXCEPT ![c] = "idle"]
    /\ mRead' = [mRead EXCEPT ![c] = <<>>]
    /\ UNCHANGED <<msgKind, mUser, mEmoji, mCalls, mConflicted>>
    /\ MsgFrame

\* the commit is rejected, runTransaction runs the body again
MsgTxnRetry(c) ==
    /\ mPc[c] = "commit"
    /\ TxnConflict(mStale, c)
    /\ mPc' = [mPc EXCEPT ![c] = "get"]
    /\ mRead' = [mRead EXCEPT ![c] = <<>>]
    /\ mStale' = mStale \ {c}
    /\ mConflicted' = mConflicted \cup {c}
    /\ UNCHANGED <<msgKind, msgReactions, mUser, mEmoji, mCalls>>
    /\ MsgFrame

\* unsendMessage line 1046: updateDoc(messageRef, { ..., reactions: {} }) of
\* a chat message
UnsendClearsReactions ==
    /\ msgKind = "chat"
    /\ msgReactions # <<>>
    /\ msgReactions' = <<>>
    /\ mStale' = {d \in Clients : mPc[d] = "commit"}
    /\ UNCHANGED <<msgKind, mPc, mUser, mEmoji, mRead, mCalls, mConflicted>>
    /\ MsgFrame

InitMsg ==
    /\ msgKind \in MsgKinds
    /\ msgReactions = <<>>
    /\ mPc = [c \in Clients |-> "idle"]
    /\ mUser = [c \in Clients |-> "u1"]
    /\ mEmoji = [c \in Clients |-> "heart"]
    /\ mRead = [c \in Clients |-> <<>>]
    /\ mStale = {}
    /\ mCalls = [c \in Clients |-> 0]
    /\ mConflicted = {}

NextMsg ==
    \/ \E c \in Clients, u \in MsgUsers, e \in Emojis : ReactToMessage(c, u, e)
    \/ \E c \in Clients : MsgTxnGet(c)
    \/ \E c \in Clients : MsgTxnCommit(c)
    \/ \E c \in Clients : MsgTxnRetry(c)
    \/ UnsendClearsReactions

\* ------------------------------------------------------------------------
\* Specifications
\* ------------------------------------------------------------------------
Init ==
    /\ InitReact /\ InitFriends /\ InitGroup /\ InitPosts /\ InitNotif
    /\ InitCreate /\ InitCall /\ InitRoom /\ InitChat /\ InitUsers
    /\ InitPoll /\ InitMsg
Next ==
    \/ NextReact \/ NextFriends \/ NextGroup \/ NextPosts \/ NextNotif
    \/ NextCreate \/ NextCall \/ NextRoom \/ NextChat \/ NextUsers
    \/ NextPoll \/ NextMsg
\* outside the friend-request operations the two service variants agree,
\* outside the notification shards the notification store plays no part
InitOne ==
    Init /\ svc = "firebaseService" /\ store = {} /\ msgKind = "chat"
InitFriendsOnly == Init /\ store = {} /\ msgKind = "chat"
InitNotifOnly == Init /\ svc = "part_000" /\ msgKind = "chat"
InitMsgOnly == Init /\ svc = "firebaseService" /\ store = {}
Spec == Init /\ [][Next]_vars
SpecReact == InitOne /\ [][NextReact]_vars
SpecFriends == InitFriendsOnly /\ [][NextFriends]_vars
SpecGroup == InitOne /\ [][NextGroup]_vars
SpecPosts == InitOne /\ [][NextPosts]_vars
SpecNotif == InitNotifOnly /\ [][NextNotif]_vars
SpecCreate == InitOne /\ [][NextCreate]_vars
SpecCall == InitOne /\ [][NextCall]_vars
SpecRoom == InitOne /\ [][NextRoom]_vars
SpecChat == InitOne /\ [][NextChat]_vars
SpecUsers == InitOne /\ [][NextUsers]_vars
SpecPoll == InitOne /\ [][NextPoll]_vars
SpecMsg == InitMsgOnly /\ [][NextMsg]_vars

\* what a user's own calls alone produce: the last reaction they set, or
\* absent when the last call repeated the reaction they had
RECURSIVE OwnResult(_)
OwnResult(calls) ==
    IF calls = <<>> THEN Absent
    ELSE LET before == OwnResult(SubSeq(calls, 1, Len(calls) - 1))
             last == calls[Len(calls)]
         IN IF before = last THEN Absent ELSE last

ReactQuiescent == \A u \in Users : rPc[u] = "idle"

\* C1: once every reactToPost call has returned, each user's entry in the
\* post's reactions map is what that user's own calls alone produce, whatever
\* the other users did concurrently
C1_NoLostReaction ==
    ReactQuiescent => \A u \in Users : reactions[u] = OwnResult(rHistory[u])

\* a call was re-run after a conflict and every call has returned
C1_Witness ==
    /\ ReactQuiescent
    /\ rConflicted
    /\ \A u \in Users : Len(rHistory[u]) = MaxCalls
    /\ \E u \in Users : reactions[u] # Absent
    /\ \E u \in Users : reactions[u] = Absent

\* ------------------------------------------------------------------------
\* Friendship
\* ------------------------------------------------------------------------
Symmetric == \A a, b \in FriendUsers : (b \in friendIds[a]) <=> (a \in friendIds[b])

\* a step that makes b a friend of a makes a a friend of b and deletes the
\* request between them, all in that one step
AcceptAtomic ==
    \A a, b \in FriendUsers :
        (b \notin friendIds[a] /\ b \in friendIds'[a]) =>
            /\ a \in friendIds'[b]
            /\ \/ <<a, b>> \in requests /\ <<a, b>> \notin requests'
               \/ <<b, a>> \in requests /\ <<b, a>> \notin requests'

\* C2: friendship is symmetric in every reachable state, and an acceptance
\* adds both directions and deletes the request in a single step
C2_FriendshipSymmetric == []Symmetric /\ [][AcceptAtomic]_vars

\* two users are friends after an acceptance that was re-run after a conflict
C2_Witness ==
    /\ \E a, b \in FriendUsers : a # b /\ b \in friendIds[a] /\ a \in friendIds[b]
    /\ \E c \in Clients : aResult[c] = "ok"
    /\ \E c \in Clients : aPc[c] = "get_request" /\ c \in aStale

\* ------------------------------------------------------------------------
\* Acceptance notifications and failures
\* ------------------------------------------------------------------------
FriendQuiescent ==
    /\ \A c \in Clients : aPc[c] = "idle"
    /\ \A pr \in Pairs : notifTasks[pr] = 0

\* C9: once every call and every notification write has finished, the
\* original sender of each request holds exactly one 'friend_request_approved'
\* notification per committed acceptance, in either service variant
C9_OneNotificationPerAcceptance ==
    FriendQuiescent => \A pr \in Pairs : notifs[pr] = fAccepted[pr]

\* a client's call just failed with 'Friend request not found or already
\* handled.'
FailsNotFound(c) == aResult[c] # "not_found" /\ aResult'[c] = "not_found"

\* the body of a client's transaction reads the request document
ReadsRequest(c) == aPc[c] = "get_request" /\ aPc'[c] # "get_request"

\* a call that finds no pending request fails with the error and changes no
\* friendIds; a call fails with the error only when there is no request
AcceptFailsWithoutRequest ==
    \A c \in Clients :
        /\ (ReadsRequest(c) /\ <<aReq[c], aCur[c]>> \notin requests) =>
               FailsNotFound(c) /\ friendIds' = friendIds
        /\ FailsNotFound(c) =>
               <<aReq[c], aCur[c]>> \notin requests /\ friendIds' = friendIds

\* both clients made one call each, for the same request, which was created
\* once, never declined or cancelled, and is gone
SameRequestRace(c, d) ==
    /\ c # d
    /\ aCalls[c] = 1 /\ aCalls[d] = 1
    /\ aPc[c] = "idle" /\ aPc[d] = "idle"
    /\ aCur[c] = aCur[d] /\ aReq[c] = aReq[d]
    /\ fCreated[<<aReq[c], aCur[c]>>] = 1
    /\ fWithdrawn[<<aReq[c], aCur[c]>>] = 0
    /\ <<aReq[c], aCur[c]>> \notin requests

ExactlyOneSucceeds ==
    \A c, d \in Clients :
        SameRequestRace(c, d) =>
            \/ aResult[c] = "ok" /\ aResult[d] = "not_found"
            \/ aResult[d] = "ok" /\ aResult[c] = "not_found"

\* C10: without a pending request acceptFriendRequest fails with 'Friend
\* request not found or already handled.' and changes no friendIds, and of
\* two acceptances of one request exactly one succeeds, the other fails
\* with that error
C10_AcceptOnlyPendingRequest ==
    [][AcceptFailsWithoutRequest]_vars /\ []ExactlyOneSucceeds

\* two clients raced for one request: the loser's commit was rejected, its
\* re-run found the request gone
C10_Witness ==
    /\ SameRequestRace("c1", "c2")
    /\ aResult["c1"] = "ok"
    /\ aResult["c2"] = "not_found"
    /\ friendIds["u1"] = {"u2"}

\* ------------------------------------------------------------------------
\* Group membership counter
\* ------------------------------------------------------------------------
\* C3: a group's memberCount equals the number of entries of its members
\* list and is never negative
C3_MemberCountConsistent ==
    gMemberCount = Len(gMembers) /\ gMemberCount >= 0

\* ------------------------------------------------------------------------
\* Read-then-write operations
\* ------------------------------------------------------------------------
\* C4: an operation that writes a value derived from a document it read
\* does both in one atomic step: when approvePost or rejectPost writes
\* pendingPosts, the list it read is still the stored list
C4_ReadAndWriteAtomic ==
    \A c \in Clients :
        pPc[c] \in {"approve_update", "reject_update"} => pRead[c] = pPending

\* ------------------------------------------------------------------------
\* Notification shards
\* ------------------------------------------------------------------------
\* C5: every stored notification lies in the daily collection named after
\* the UTC date of its own createdAt
C5_StoredInCollectionOfCreatedAt ==
    \A doc \in store : doc.coll = getDailyCollectionName(doc.createdAt)

\* C6: every notification passed to markNotificationsAsRead has read = true
\* in its stored document afterwards
C6_MarkedNotificationsAreRead ==
    \A id \in lastMarked : \E doc \in store : doc.id = id /\ doc.read

\* the stored documents of the latest snapshots of the shards still listening
LiveSeen == UNION {lSeen[sh] \ NoSnapshot : sh \in ModelShards \ lDead}

DeliveredTime(i) == ParseISO(delivered[i].createdAt)

\* C7: the callback receives at most 50 notifications, all addressed to the
\* subscribed user, newest first, taken from the latest snapshot of every
\* shard, none of them from a shard whose listener reported an error
C7_CallbackArgument ==
    /\ Len(delivered) <= NotificationLimit
    /\ \A i \in 1..Len(delivered) : delivered[i].recipientId = Subscriber
    /\ \A i \in 1..(Len(delivered) - 1) :
           DeliveredTime(i) >= DeliveredTime(i + 1)
    /\ \A i \in 1..Len(delivered) :
           \E doc \in LiveSeen :
               doc.id = delivered[i].id /\ doc.read = delivered[i].read
    /\ Cardinality({delivered[i].id : i \in 1..Len(delivered)}) = Len(delivered)
    /\ Len(delivered) = IF Cardinality(LiveSeen) < NotificationLimit
                        THEN Cardinality(LiveSeen) ELSE NotificationLimit
    /\ \A i \in 1..Len(delivered) :
           \A doc \in store : doc.id = delivered[i].id => doc.coll \notin lDead

\* the callback got a truncated list while more than 50 notifications were
\* in the latest snapshots, and a shard that holds a notification for the
\* subscriber has reported an error
C7_Witness ==
    /\ Len(delivered) = NotificationLimit
    /\ Cardinality(LiveSeen) > NotificationLimit
    /\ \E sh \in lDead : ShardQuery(sh) # {}

\* ------------------------------------------------------------------------
\* createPost
\* ------------------------------------------------------------------------
\* the post a step adds, if it adds one
AddedPost == posts'[Len(posts')]

\* every URL the helper returned sits in videoUrl when the returned type is
\* 'video' and in imageUrl otherwise
CarriesByReturnedType(post) ==
    \A k \in {"mediaFile", "generatedImage", "audioBlob"} :
        cpReturned[k].url # None =>
            IF cpReturned[k].type = "video"
            THEN post.videoUrl = cpReturned[k].url
            ELSE post.imageUrl = cpReturned[k].url

\* the media file's URL sits in videoUrl or imageUrl by its returned type,
\* unless a generated image replaced imageUrl; the generated image's URL is
\* the imageUrl and the audio blob's URL the audioUrl
CarriesByUpload(post) ==
    /\ cpReturned.mediaFile.url # None =>
           IF cpReturned.mediaFile.type = "video"
           THEN post.videoUrl = cpReturned.mediaFile.url
           ELSE \/ post.imageUrl = cpReturned.mediaFile.url
                \/ cpReturned.generatedImage.url # None
    /\ cpReturned.generatedImage.url # None =>
           post.imageUrl = cpReturned.generatedImage.url
    /\ cpReturned.audioBlob.url # None =>
           post.audioUrl = cpReturned.audioBlob.url

\* a failed upload ends the call without a post; a post is added only by a
\* call none of whose uploads failed, and exactly one
NoPostAfterFailedUpload ==
    /\ (cpFailed' /\ cpPc' = "idle") => posts' = posts
    /\ posts' # posts =>
           /\ ~cpFailed
           /\ Len(posts') = Len(posts) + 1
           /\ SubSeq(posts', 1, Len(posts)) = posts

\* C8 as stated: no post after a failed upload, otherwise one post carrying
\* each returned URL as videoUrl when the returned type is 'video' and as
\* imageUrl otherwise
C8_PostCarriesUrlByType ==
    [][NoPostAfterFailedUpload
       /\ (posts' # posts => CarriesByReturnedType(AddedPost))]_vars

\* C8 amended: no post after a failed upload, otherwise one post carrying
\* the media file's URL by its returned type, the generated image's URL as
\* imageUrl and the audio blob's URL as audioUrl
C8_PostCarriesUrlByUpload ==
    [][NoPostAfterFailedUpload
       /\ (posts' # posts => CarriesByUpload(AddedPost))]_vars

\* one call added a post with a video URL and an audio URL, the next call
\* ended with the upload error and added nothing
C8_Witness ==
    /\ Len(posts) = 1
    /\ posts[1].videoUrl # None
    /\ posts[1].audioUrl # None
    /\ cpCalls = 2
    /\ cpResult = "upload_failed"

\* ------------------------------------------------------------------------
\* Call status and call history
\* ------------------------------------------------------------------------
\* C11: the ringing timeout's write turns the stored status into 'missed'
\* only when the stored status is 'ringing' at the moment of the write
C11_MissedOnlyOverRinging ==
    [][(callStatus' = "missed" /\ callStatus # "missed")
           => callStatus = "ringing"]_vars

\* C12: a call's chat holds at most one 'call_history' message
C12_AtMostOneCallHistory == historyMessages <= 1

\* ------------------------------------------------------------------------
\* Live video room membership
\* ------------------------------------------------------------------------
\* the screen has unmounted and every operation it started has finished
RoomSettled ==
    /\ screen = "unmounted"
    /\ jPc = "done"
    /\ lPc = "done"
    /\ sPc \in {"idle", "done"}

\* C13: once the screen has unmounted and the join, the leave and the setup
\* it started have all finished, the user is not listed in participants
C13_NotParticipantAfterUnmount ==
    RoomSettled => ~IsParticipant(participants, Viewer)

\* ------------------------------------------------------------------------
\* Chats: unsending and unread counts
\* ------------------------------------------------------------------------
\* a step changes a message document only for an unsendMessage call made by
\* the sender of that message
OnlySenderModifies ==
    \A m \in 1..Len(chatMessages) :
        chatMessages'[m] # chatMessages[m] =>
            \E u \in ChatUsers :
                /\ umPc[u] = "update_message" /\ umMessage[u] = m
                /\ chatMessages[m].senderId = u

\* a step marks the stored lastMessage as deleted only for an unsendMessage
\* call whose message is that lastMessage
MarksOnlyUnsentLastMessage ==
    (lastMessage # NoMessage /\ ~lastMessage.isDeleted
     /\ lastMessage'.isDeleted) =>
        \E u \in ChatUsers :
            umPc[u] = "update_chat" /\ umMessage[u] = lastMessage.id

\* C14: unsendMessage changes a message only for its sender and marks the
\* chat's lastMessage as deleted only if it is the message being unsent,
\* whatever is sent to the chat meanwhile
C14_UnsendTouchesOnlyOwnMessage ==
    [][OnlySenderModifies /\ MarksOnlyUnsentLastMessage]_vars

\* the count listenToConversations reports is the number of messages sent to
\* the user since the user's last markMessagesAsRead
ReportsSentSince ==
    \A u \in ChatUsers :
        lastMessage # NoMessage =>
            UnreadCountOf(unreadCount, u) = sentSince[u]

\* markMessagesAsRead(chat, R) sets R's count to 0 and leaves the peer's
MarkResetsOwnCount ==
    \A u \in ChatUsers :
        (sentSince'[u] = 0 /\ unreadCount'[u] = 0 /\ smPc' = smPc
         /\ unreadCount' # unreadCount) =>
            UnreadCountOf(unreadCount', Peer(u))
                = UnreadCountOf(unreadCount, Peer(u))

\* C15: the reported unread count of a user equals the number of messages
\* sent to the user since the user last marked the chat as read, and marking
\* as read sets the user's count to 0 without changing the peer's
C15_UnreadCountIsSentSinceRead ==
    []ReportsSentSince /\ [][MarkResetsOwnCount]_vars

\* ------------------------------------------------------------------------
\* Usernames
\* ------------------------------------------------------------------------
SignUpsFinished == \A c \in Clients : suPc[c] = "idle"

\* C16: once the signUpWithEmail calls have finished, every usernames/<name>
\* document holds the uid of a user whose profile carries that username, and
\* no two user profiles carry the same lower-cased username
C16_UsernamesUnique ==
    SignUpsFinished =>
        /\ \A n \in LowerNames :
               usernames[n] # 0 => profiles[usernames[n]] = n
        /\ \A i, j \in Uids :
               (i # j /\ profiles[i] # None) => profiles[i] # profiles[j]

\* ------------------------------------------------------------------------
\* Poll votes
\* ------------------------------------------------------------------------
\* how often a user id occurs in the votedBy lists of all options
RECURSIVE VoteEntries(_, _)
VoteEntries(options, userId) ==
    IF options = <<>> THEN 0
    ELSE Len(SelectSeq(Head(options).votedBy, LAMBDA v : v = userId))
         + VoteEntries(Tail(options), userId)

OneVotePerUser ==
    /\ \A u \in Voters : VoteEntries(pollOptions, u) <= 1
    /\ \A i \in 1..NumOptions :
           pollOptions[i].votes = Len(pollOptions[i].votedBy)

\* the poll changes only by the vote of a user who had not voted, for an
\* option index in range; a call for an invalid index by such a user
\* returns null
VoteChangesPoll ==
    /\ pollOptions' # pollOptions =>
           \E c \in Clients :
               /\ vPc[c] = "commit" /\ vResult'[c] = "updated"
               /\ ~HasVoted(pollOptions, vUser[c])
               /\ ~InvalidIndex(pollOptions, vIndex[c])
               /\ pollOptions' =
                      UpdatedOptions(pollOptions, vIndex[c], vUser[c])
    /\ \A c \in Clients :
           (vPc[c] = "get" /\ vPc'[c] # "get"
            /\ ~HasVoted(pollOptions, vUser[c])
            /\ InvalidIndex(pollOptions, vIndex[c])) =>
               vResult'[c] = "null" /\ pollOptions' = pollOptions
    /\ \A c \in Clients :
           (vPc[c] = "get" /\ vPc'[c] # "get"
            /\ HasVoted(pollOptions, vUser[c])) =>
               vResult'[c] = "post" /\ pollOptions' = pollOptions

\* C17: each user id is in the votedBy list of at most one option, every
\* option's votes equal the user ids added to its votedBy, a vote by a user
\* who has voted changes nothing and an invalid option index of a user who
\* has not voted changes nothing and returns null
C17_OneVotePerUser == []OneVotePerUser /\ [][VoteChangesPoll]_vars

\* two concurrent calls by one user: one vote was counted, the other call
\* was re-run after the conflict and found the vote; then an invalid index
\* by the other user returned null
C17_Witness ==
    /\ vUser["c1"] = "u2" /\ vIndex["c1"] = NumOptions
    /\ vResult["c1"] = "null"
    /\ vUser["c2"] = "u1" /\ vResult["c2"] = "post" /\ "c2" \in vConflicted
    /\ VoteEntries(pollOptions, "u1") = 1
    /\ VoteEntries(pollOptions, "u2") = 0

\* ------------------------------------------------------------------------
\* Message reactions
\* ------------------------------------------------------------------------
\* how often a user id occurs in the lists of all emoji
RECURSIVE ReactionEntries(_, _)
ReactionEntries(obj, userId) ==
    IF obj = <<>> THEN 0
    ELSE Len(SelectSeq(Head(obj).ids, LAMBDA id : id = userId))
         + ReactionEntries(Tail(obj), userId)

OneReactionPerUser ==
    /\ \A u \in MsgUsers : ReactionEntries(msgReactions, u) <= 1
    /\ \A i \in 1..Len(msgReactions) : msgReactions[i].ids # <<>>
    /\ \A i, j \in 1..Len(msgReactions) :
           i # j => msgReactions[i].key # msgReactions[j].key

\* a committed call with the emoji the user has removes the user's reaction,
\* with another emoji it moves the user to that emoji; the reactions of the
\* other users stay
ReactionToggles ==
    \A c \in Clients :
        (mPc[c] = "commit" /\ mPc'[c] = "idle") =>
            /\ PreviousReaction(msgReactions', mUser[c]) =
                   IF PreviousReaction(msgReactions, mUser[c]) = mEmoji[c]
                   THEN None ELSE mEmoji[c]
            /\ \A u \in MsgUsers \ {mUser[c]} :
                   PreviousReaction(msgReactions', u)
                       = PreviousReaction(msgReactions, u)

\* C18: each user id is under at most one emoji and no emoji maps to an
\* empty list; reacting with the emoji the user has removes the reaction,
\* reacting with another emoji moves the user to it
C18_OneReactionPerUser == []OneReactionPerUser /\ [][ReactionToggles]_vars

\* two concurrent calls by one user with different emoji: the second was
\* re-run after the conflict and moved the user from the first emoji, whose
\* key is gone
C18_Witness ==
    /\ mPc = [c \in Clients |-> "idle"]
    /\ mCalls = [c \in Clients |-> 1]
    /\ mUser["c1"] = "u1" /\ mEmoji["c1"] = "thumb"
    /\ mUser["c2"] = "u1" /\ mEmoji["c2"] = "heart"
    /\ "c2" \in mConflicted
    /\ msgReactions = <<[key |-> "heart", ids |-> <<"u1">>]>>

\* ------------------------------------------------------------------------
\* Join request approval
\* ------------------------------------------------------------------------
\* a client's approveJoinRequest transaction ends in this step
ApproveEnds(c) == gPc[c] = "approveJoinRequest" /\ gPc'[c] = "idle"

\* an approval whose request is listed removes it, adds the user to members
\* and counts one member more; an approval whose request is gone changes
\* nothing of the group
ApproveOnlyListedRequest ==
    \A c \in Clients :
        ApproveEnds(c) =>
            IF gArg[c] \in gJoinRequests
            THEN /\ gJoinRequests' = gJoinRequests \ {gArg[c]}
                 /\ gMembers' = ArrayUnion(gMembers, gArg[c])
                 /\ gMemberCount' = gMemberCount + 1
            ELSE UNCHANGED <<gMembers, gMemberCount, gAdmins, gModerators,
                             gJoinRequests>>

\* C19: approving a user whose join request is no longer listed changes
\* nothing, so repeated or concurrent approvals of one request, also with a
\* concurrent rejectJoinRequest, add the user and increment memberCount at
\* most once
C19_ApproveOncePerRequest == [][ApproveOnlyListedRequest]_vars

\* a client is in the middle of approving a request that another client's
\* approval has meanwhile handled: the user is a member, was counted once,
\* and the first client's read is out of date
C19_Witness ==
    /\ gPc["c1"] = "approveJoinRequest"
    /\ gArg["c1"] = "u2"
    /\ "u2" \in gRead["c1"].joinRequests
    /\ "c1" \in gStale
    /\ "u2" \notin gJoinRequests
    /\ IsMember(gMembers, "u2")
    /\ gMemberCount = 2
====
